---------------------------- MODULE Spec2Model ----------------------------
(*************************************************************************)
(* A model of the dialog state machine of src/ADMTelegramBot.py: the     *)
(* ConversationHandler of main(), its handlers, the per-user             *)
(* context.user_data dictionaries, the user_languages map and the five   *)
(* worksheets the handlers append to.                                    *)
(*                                                                       *)
(* Texts are sequences of one-character strings, so that the string      *)
(* functions the handlers use (startswith, isdigit, strip, title, lower, *)
(* float, the .2f format) are computed character by character.  Every    *)
(* other value a dictionary or a row can hold (callback payloads, file   *)
(* ids, user ids, timestamps) is a sequence of strings too.              *)
(*************************************************************************)
EXTENDS Integers, Sequences, FiniteSets, TLC

VARIABLES
    conv,            \* ConversationHandler: user -> current state, NoConv before /start
    user_data,       \* context.user_data: user -> dictionary (key -> value)
    user_languages,  \* user_languages: user -> language code, Unset when absent
    sheets,          \* worksheet name -> sequence of data rows (header row excluded)
    flows,           \* number of flows entered from the main menu so far
    last,            \* the latest update: whose it was, the handler that ran, what
                     \* it found (state, user_data, worksheets), the messages it
                     \* sent and the record-store calls it made, in order
    fresh,           \* user -> keys of user_data assigned since the conversation
                     \* last left the language selection or the main menu
    cast,            \* the participants that send updates in this behaviour
    stray,           \* the stray update of this behaviour
    queue,           \* Application.update_queue: the updates received and not
                     \* yet fetched, oldest first
    tasks            \* the handler callbacks begun and not yet returned

vars == <<conv, user_data, user_languages, sheets, flows, last, fresh, cast, stray,
          queue, tasks>>

--------------------------------------------------------------------------
(* Bounds of the model. *)

\* Flows a behaviour enters from the main menu, all participants together.
MaxFlows == 2

\* Length of the texts sent to a phone step in PhoneSpec.
MaxPhoneLen == 3

\* The longest amount text built from AmountAlphabet.
MaxAmountLen == 2

\* The updates received and not yet fetched.
MaxQueue == 2

--------------------------------------------------------------------------
(* Configuration and static tables. *)

Users == {"u1", "u2"}

ADMIN_ID == "u1"

LANG_SELECT == "LANG_SELECT"
MENU == "MENU"
PARTNER_MAIN_OPTIONS == "PARTNER_MAIN_OPTIONS"
PARTNER_GIVE_OPTIONS == "PARTNER_GIVE_OPTIONS"
PARTNER_PARTNER_OPTIONS == "PARTNER_PARTNER_OPTIONS"
PARTNER_DETAILS_NAME == "PARTNER_DETAILS_NAME"
PARTNER_DETAILS_PHONE == "PARTNER_DETAILS_PHONE"
PARTNER_DETAILS_COUNTRY == "PARTNER_DETAILS_COUNTRY"
PARTNER_PAYMENT_METHOD == "PARTNER_PAYMENT_METHOD"
PARTNER_AMOUNT == "PARTNER_AMOUNT"
PARTNER_PAYMENT_PROOF == "PARTNER_PAYMENT_PROOF"
PRAYER_NAME == "PRAYER_NAME"
PRAYER_INPUT == "PRAYER_INPUT"
MEMBER_NAME == "MEMBER_NAME"
MEMBER_PHONE == "MEMBER_PHONE"
MEMBER_COUNTRY == "MEMBER_COUNTRY"
SCHOOL_NAME == "SCHOOL_NAME"
SCHOOL_PHONE == "SCHOOL_PHONE"
SCHOOL_COUNTRY == "SCHOOL_COUNTRY"
MASTER_NAME == "MASTER_NAME"
MASTER_PHONE == "MASTER_PHONE"
MASTER_COUNTRY == "MASTER_COUNTRY"
CONTACT_ADMIN_INFO == "CONTACT_ADMIN_INFO"

\* The conversation key of a user the handler holds no state for.
NoConv == "NONE"

States == {LANG_SELECT, MENU, PARTNER_MAIN_OPTIONS, PARTNER_GIVE_OPTIONS,
           PARTNER_PARTNER_OPTIONS, PARTNER_DETAILS_NAME, PARTNER_DETAILS_PHONE,
           PARTNER_DETAILS_COUNTRY, PARTNER_PAYMENT_METHOD, PARTNER_AMOUNT,
           PARTNER_PAYMENT_PROOF, PRAYER_NAME, PRAYER_INPUT, MEMBER_NAME,
           MEMBER_PHONE, MEMBER_COUNTRY, SCHOOL_NAME, SCHOOL_PHONE,
           SCHOOL_COUNTRY, MASTER_NAME, MASTER_PHONE, MASTER_COUNTRY,
           CONTACT_ADMIN_INFO}

\* LANGUAGES: the codes the language keyboard offers.
LANGUAGES == {<<"en">>, <<"es">>, <<"fr">>, <<"pt">>}

\* Absent entry of user_languages.
Unset == <<>>

\* translations["buttons"]: the six main-menu labels of each language.
buttons ==
    [en |-> << <<"Member Sign-Up">>, <<"Prayer Request">>,
               <<"School of Discipleship">>, <<"Master Class">>,
               <<"Give or Partner">>, <<"Admin Dashboard">> >>,
     es |-> << <<"Registro de miembro">>, <<"Solicitud de oracion">>,
               <<"Escuela de discipulado">>, <<"Clase Magistral">>,
               <<"Donar o Asociarse">>, <<"Panel de Administracion">> >>,
     fr |-> << <<"Devenir membre">>, <<"Demande de priere">>,
               <<"Ecole de discipolat">>, <<"Cours magistral">>,
               <<"Donner ou Partenaire">>, <<"Tableau de bord Admin">> >>,
     pt |-> << <<"Inscrever-se como membro">>, <<"Pedido de oracao">>,
               <<"Escola de discipulado">>, <<"Aula Magna">>,
               <<"Dar ou Parceiro">>, <<"Painel de Administracao">> >>]

\* translations["partner_give_options"]: each option as its words.
partner_give_options ==
    [en |-> << <<"Tithe", "(Malachi", "3:10)">>,
               <<"Offering", "(2", "Corinthians", "9:7)">>,
               <<"Seed", "of", "Faith", "(Luke", "6:38)">> >>,
     es |-> << <<"Diezmo", "(Malaquias", "3:10)">>,
               <<"Ofrenda", "(2", "Corintios", "9:7)">>,
               <<"Semilla", "de", "Fe", "(Lucas", "6:38)">> >>,
     fr |-> << <<"Dime", "(Malachie", "3:10)">>,
               <<"Offrande", "(2", "Corinthiens", "9:7)">>,
               <<"Graine", "de", "Foi", "(Luc", "6:38)">> >>,
     pt |-> << <<"Dizimo", "(Malaquias", "3:10)">>,
               <<"Oferta", "(2", "Corintios", "9:7)">>,
               <<"Semente", "de", "Fe", "(Lucas", "6:38)">> >>]

\* translations["partner_partner_options"]: each option as its words.
partner_partner_options ==
    [en |-> << <<"Partner", "with", "Man", "of", "God">>,
               <<"Ministry", "Partner">>,
               <<"Angels", "on", "Assignment">> >>,
     es |-> << <<"Asociarse", "con", "Hombre", "de", "Dios">>,
               <<"Socio", "del", "Ministerio">>,
               <<"Angeles", "en", "Asignacion">> >>,
     fr |-> << <<"Partenaire", "avec", "l'Homme", "de", "Dieu">>,
               <<"Partenaire", "du", "Ministere">>,
               <<"Anges", "en", "Mission">> >>,
     pt |-> << <<"Parceiro", "com", "Homem", "de", "Deus">>,
               <<"Parceiro", "do", "Ministerio">>,
               <<"Anjos", "em", "Missao">> >>]

\* worksheet_data: the header row of each worksheet.
worksheet_data ==
    ("Members" :> <<"User ID", "Name", "Phone", "Country", "Timestamp">>)
    @@ ("Prayers" :> <<"User ID", "Name", "Prayer Request", "Timestamp">>)
    @@ ("Partners" :> <<"User ID", "Partner Type", "Name", "Phone", "Country",
                        "Amount", "Timestamp", "Payment Proof File ID">>)
    @@ ("School of Discipleship" :> <<"User ID", "Name", "Phone", "Country", "Timestamp">>)
    @@ ("Master Class" :> <<"User ID", "Name", "Phone", "Country", "Timestamp">>)
    @@ ("Daily Messages" :> <<"Date", "Scripture", "Motivational Message">>)

\* The worksheets the handlers append to: members_sheet, prayer_sheet,
\* partner_sheet, school_sheet and masterclass_sheet.
SheetNames == {"Members", "Prayers", "Partners", "School of Discipleship", "Master Class"}


--------------------------------------------------------------------------
(* Python string functions, on sequences of one-character strings. *)

LowerLetters == <<"a","b","c","d","e","f","g","h","i","j","k","l","m",
                  "n","o","p","q","r","s","t","u","v","w","x","y","z">>

UpperLetters == <<"A","B","C","D","E","F","G","H","I","J","K","L","M",
                  "N","O","P","Q","R","S","T","U","V","W","X","Y","Z">>

AsciiDigits == <<"0","1","2","3","4","5","6","7","8","9">>

\* U+00B2 SUPERSCRIPT TWO, written as a one-character token: a character
\* for which str.isdigit() is True and which float() does not accept.
Sup2 == "^2"

RECURSIVE IndexOf(_, _, _)
\* The position of c in the sequence t at or after i, 0 when absent.
IndexOf(t, c, i) ==
    IF i > Len(t) THEN 0
    ELSE IF t[i] = c THEN i
    ELSE IndexOf(t, c, i + 1)

IsLowerChar(c) == IndexOf(LowerLetters, c, 1) > 0
IsUpperChar(c) == IndexOf(UpperLetters, c, 1) > 0
IsCased(c) == IsLowerChar(c) \/ IsUpperChar(c)
IsAsciiDigit(c) == IndexOf(AsciiDigits, c, 1) > 0
DigitVal(c) == IndexOf(AsciiDigits, c, 1) - 1

\* str.isdigit() of one character: decimal digits and digit-like characters.
IsDigitChar(c) == IsAsciiDigit(c) \/ c = Sup2

\* str.isspace() of one character.
IsSpace(c) == c = " "

LowerChar(c) == IF IsUpperChar(c) THEN LowerLetters[IndexOf(UpperLetters, c, 1)] ELSE c
UpperChar(c) == IF IsLowerChar(c) THEN UpperLetters[IndexOf(LowerLetters, c, 1)] ELSE c

\* s[i:] of Python, i counted from 0.
DropFirst(s, n) == IF n >= Len(s) THEN <<>> ELSE SubSeq(s, n + 1, Len(s))

\* str.startswith
StartsWith(s, p) == Len(s) >= Len(p) /\ SubSeq(s, 1, Len(p)) = p

\* str.isdigit(): at least one character and every character a digit.
IsDigitStr(s) == Len(s) >= 1 /\ \A i \in 1..Len(s) : IsDigitChar(s[i])

\* str.lower()
LowerStr(s) == [i \in 1..Len(s) |-> LowerChar(s[i])]

RECURSIVE LStrip(_)
LStrip(s) == IF s # <<>> /\ IsSpace(Head(s)) THEN LStrip(Tail(s)) ELSE s

RECURSIVE RStrip(_)
RStrip(s) ==
    IF s # <<>> /\ IsSpace(s[Len(s)]) THEN RStrip(SubSeq(s, 1, Len(s) - 1)) ELSE s

\* str.strip()
Strip(s) == RStrip(LStrip(s))

\* str.title(): a cased character is upper-cased when the character before
\* it is not cased, and lower-cased when it is.
Title(s) ==
    [i \in 1..Len(s) |->
        IF i > 1 /\ IsCased(s[i - 1]) THEN LowerChar(s[i]) ELSE UpperChar(s[i])]

\* sub in s
Contains(s, sub) ==
    \E i \in 0..(Len(s) - Len(sub)) : SubSeq(s, i + 1, i + Len(sub)) = sub

\* The phone test of the four phone handlers.
\* The phone test with isdigit() applied to the whole text.
PhoneOk_whole_isdigit(phone_number) ==
    StartsWith(phone_number, <<"+">>) /\ IsDigitStr(phone_number)

PhoneOk(phone_number) ==
    StartsWith(phone_number, <<"+">>) /\ IsDigitStr(DropFirst(phone_number, 1))

--------------------------------------------------------------------------
(* float(text) and the .2f format, for literals without exponent and    *)
(* without underscores (the input sets below contain no other).  A      *)
(* finite value is held exactly in thousandths; digits after the third  *)
(* fractional digit only record whether they are all zero.              *)

RECURSIVE DigitsValue(_, _)
\* The number a sequence of decimal digits denotes, acc carrying the prefix.
DigitsValue(ds, acc) ==
    IF ds = <<>> THEN acc ELSE DigitsValue(Tail(ds), acc * 10 + DigitVal(Head(ds)))

AllAsciiDigits(s) == \A i \in 1..Len(s) : IsAsciiDigit(s[i])

\* Three fractional digits, padded with zeros or cut.
Pad3(fr) ==
    [i \in 1..3 |-> IF i <= Len(fr) THEN fr[i] ELSE "0"]

NotANumber == [ok |-> FALSE, kind |-> "none", neg |-> FALSE, milli |-> 0, rest |-> FALSE]

\* The unsigned body of a float literal.
ParseUnsigned(b, neg) ==
    LET lb == LowerStr(b)
        dot == IndexOf(b, ".", 1)
        ip == IF dot = 0 THEN b ELSE SubSeq(b, 1, dot - 1)
        fr == IF dot = 0 THEN <<>> ELSE DropFirst(b, dot)
    IN IF lb = <<"n","a","n">> THEN
           [ok |-> TRUE, kind |-> "nan", neg |-> neg, milli |-> 0, rest |-> FALSE]
       ELSE IF lb = <<"i","n","f">> \/ lb = <<"i","n","f","i","n","i","t","y">> THEN
           [ok |-> TRUE, kind |-> "inf", neg |-> neg, milli |-> 0, rest |-> FALSE]
       ELSE IF Len(ip) + Len(fr) >= 1 /\ AllAsciiDigits(ip) /\ AllAsciiDigits(fr) THEN
           [ok |-> TRUE, kind |-> "num", neg |-> neg,
            milli |-> DigitsValue(ip, 0) * 1000 + DigitsValue(Pad3(fr), 0),
            rest |-> \E i \in 4..Len(fr) : fr[i] # "0"]
       ELSE NotANumber

\* float(text): surrounding whitespace is ignored, one sign is allowed.
ParseFloat(text) ==
    LET t == Strip(text)
    IN IF t = <<>> THEN NotANumber
       ELSE IF Head(t) = "-" THEN ParseUnsigned(Tail(t), TRUE)
       ELSE IF Head(t) = "+" THEN ParseUnsigned(Tail(t), FALSE)
       ELSE ParseUnsigned(t, FALSE)

\* amount <= 0 of a parsed float (every comparison with nan is False).
FloatLeqZero(f) ==
    CASE f.kind = "nan" -> FALSE
      [] f.kind = "inf" -> f.neg
      [] OTHER -> f.neg \/ (f.milli = 0 /\ ~f.rest)

RECURSIVE NatToStr(_)
NatToStr(n) ==
    IF n < 10 THEN <<AsciiDigits[n + 1]>>
    ELSE NatToStr(n \div 10) \o <<AsciiDigits[(n % 10) + 1]>>

RECURSIVE BitLength(_)
\* int.bit_length()
BitLength(n) == IF n = 0 THEN 0 ELSE 1 + BitLength(n \div 2)

RECURSIVE Pow2Mod(_)
\* 2**k % 1000
Pow2Mod(k) ==
    IF k = 0 THEN 1
    ELSE IF k % 2 = 1 THEN (2 * Pow2Mod(k - 1)) % 1000
    ELSE (Pow2Mod(k \div 2) * Pow2Mod(k \div 2)) % 1000

\* The zero bits between the binary point and the first one bit of r/1000,
\* for r in 1..999.
LeadingZeros(r) == CHOOSE z \in 0..9 : r * 2^z < 1000 /\ r * 2^(z + 1) >= 1000

\* float() of `milli` thousandths is greater than milli/1000 (for a value
\* no double holds exactly).  A double keeps 53 significant bits: those of
\* the integer part come first, the leading zero bits of a value below 1
\* do not count.  What remains of the fraction after the last bit kept is
\* dropped when it is less than half a unit of that bit, and rounded up
\* when it is more.
RoundsAbove(milli) ==
    LET r == milli % 1000
        kept == IF milli >= 1000 THEN 53 - BitLength(milli \div 1000)
                ELSE 53 + LeadingZeros(r)
    IN (r * Pow2Mod(kept)) % 1000 > 500

\* f"{amount:.2f}": two decimals, the double rounded to nearest.  A third
\* digit 5 followed by zeros only is a tie of the decimal text: when a
\* double holds the value exactly (a multiple of 0.125) the tie goes to the
\* even digit, otherwise the double lies above or below the text and
\* decides.  Digits after the third count as lifting the value above the
\* tie, which is so for the texts of the input sets.
Format2f(f) ==
    CASE f.kind = "nan" -> <<"n","a","n">>
      [] f.kind = "inf" -> IF f.neg THEN <<"-","i","n","f">> ELSE <<"i","n","f">>
      [] OTHER ->
           LET c0 == f.milli \div 10
               r == f.milli % 10
               up == \/ r > 5
                     \/ /\ r = 5
                        /\ \/ f.rest
                           \/ IF f.milli % 125 = 0 THEN c0 % 2 = 1
                              ELSE RoundsAbove(f.milli)
               cents == IF up THEN c0 + 1 ELSE c0
               frac == cents % 100
           IN (IF f.neg THEN <<"-">> ELSE <<>>)
              \o NatToStr(cents \div 100) \o <<".">>
              \o <<AsciiDigits[(frac \div 10) + 1], AsciiDigits[(frac % 10) + 1]>>


--------------------------------------------------------------------------
(* Dictionaries, updates and outbound messages. *)

\* {} of Python.
EmptyDict == [k \in {} |-> <<>>]

\* d[k] = v
Put(d, k, v) == [x \in (DOMAIN d) \cup {k} |-> IF x = k THEN v ELSE d[x]]

\* d.get(k, default)
Get(d, k, default) == IF k \in DOMAIN d THEN d[k] ELSE default

\* An inbound update: a text message, a photo message (its sizes, smallest
\* first), a document message, a message of another kind, or a callback
\* query carrying the payload of an inline button.
TextUpdate(t) ==
    [kind |-> "text", text |-> t, photo |-> <<>>, document |-> <<>>, data |-> <<>>]
PhotoUpdate(sizes) ==
    [kind |-> "photo", text |-> <<>>, photo |-> sizes, document |-> <<>>, data |-> <<>>]
DocumentUpdate(file_id) ==
    [kind |-> "document", text |-> <<>>, photo |-> <<>>, document |-> file_id, data |-> <<>>]
OtherUpdate ==
    [kind |-> "other", text |-> <<>>, photo |-> <<>>, document |-> <<>>, data |-> <<>>]
CallbackUpdate(d) ==
    [kind |-> "callback", text |-> <<>>, photo |-> <<>>, document |-> <<>>, data |-> d]
NoUpdate ==
    [kind |-> "none", text |-> <<>>, photo |-> <<>>, document |-> <<>>, data |-> <<>>]

\* str(update.effective_user.id)
Str(u) == <<u>>

\* One reply_text call: the catalog keys whose texts are sent (joined
\* when more than one), the language they are looked up in (<<>> for a
\* text that is not per language) and the callback payloads of the
\* inline keyboard attached.
Msg(keys, lang, kb) == [text |-> keys, lang |-> lang, kb |-> kb]

\* The navigation payloads.
BACK_TO_MENU == <<"BACK_TO_MENU">>
SHOW_GIVE_OPTIONS == <<"SHOW_GIVE_OPTIONS">>
SHOW_PARTNER_OPTIONS == <<"SHOW_PARTNER_OPTIONS">>
BACK_TO_PARTNER_CATEGORIES == <<"BACK_TO_PARTNER_CATEGORIES">>
CONTACT_ADMIN == <<"CONTACT_ADMIN">>

\* The words the option tables use, and str.upper() of each.
OptionWords == <<"Tithe", "Offering", "Seed", "Partner", "with", "Ministry",
                 "Angels", "on", "Diezmo", "Ofrenda", "Semilla", "Asociarse",
                 "con", "Socio", "del", "Angeles", "en", "Dime", "Offrande",
                 "Graine", "Partenaire", "avec", "du", "Anges", "Dizimo",
                 "Oferta", "Semente", "Parceiro", "com", "do", "Anjos", "em">>

OptionWordsUpper == <<"TITHE", "OFFERING", "SEED", "PARTNER", "WITH", "MINISTRY",
                      "ANGELS", "ON", "DIEZMO", "OFRENDA", "SEMILLA", "ASOCIARSE",
                      "CON", "SOCIO", "DEL", "ANGELES", "EN", "DIME", "OFFRANDE",
                      "GRAINE", "PARTENAIRE", "AVEC", "DU", "ANGES", "DIZIMO",
                      "OFERTA", "SEMENTE", "PARCEIRO", "COM", "DO", "ANJOS", "EM">>

UpperWord(w) == OptionWordsUpper[IndexOf(OptionWords, w, 1)]

\* f"GIVE_{opt.split(' ')[0].upper()}"
GiveCallback(opt) == <<"GIVE_", UpperWord(opt[1])>>

\* f"PARTNER_{'_'.join(opt.split(' ')[0:2]).upper()}", or
\* f"PARTNER_{opt.upper()}" for an option of one word.
PartnerCallback(opt) ==
    IF Len(opt) > 1 THEN <<"PARTNER_", UpperWord(opt[1]), "_", UpperWord(opt[2])>>
    ELSE <<"PARTNER_", UpperWord(opt[1])>>

\* translations[key][lang]: defined for the four languages only.
HasTranslation(lang) == lang \in LANGUAGES

\* translations["buttons"][lang]
Buttons(lang) == buttons[lang[1]]

\* build_main_menu: one button per label, the label being its payload.
build_main_menu(lang) == Buttons(lang)

--------------------------------------------------------------------------
(* The filters and the dispatch of ConversationHandler.                  *)

\* filters.TEXT
FilterText(upd) == upd.kind = "text" /\ upd.text # <<>>

\* filters.COMMAND: a text that begins with a bot command ("/" and a name).
FilterCommand(upd) == FilterText(upd) /\ Len(upd.text) >= 2 /\ Head(upd.text) = "/"

\* CommandHandler("start", ...)
IsStartCommand(upd) ==
    FilterText(upd) /\ upd.text = <<"/","s","t","a","r","t">>

\* filters.TEXT alone: the commands are texts of a state as well.
FilterPlainText_with_commands(upd) == FilterText(upd)

\* filters.TEXT & ~filters.COMMAND
FilterPlainText(upd) == FilterText(upd) /\ ~FilterCommand(upd)

\* filters.PHOTO | filters.Document.ALL
FilterMedia(upd) == upd.kind = "photo" \/ upd.kind = "document"

IsCallback(upd) == upd.kind = "callback"

\* states={...}: the handler of a state that accepts the update, "none"
\* when no handler of the state does.
StateHandler(state, upd) ==
    CASE state = LANG_SELECT /\ IsCallback(upd) -> "language_selected"
      [] state = MENU /\ IsCallback(upd) -> "handle_menu"
      [] state = PARTNER_MAIN_OPTIONS /\ IsCallback(upd) -> "handle_partner_main_selection"
      [] state = PARTNER_GIVE_OPTIONS /\ IsCallback(upd) -> "handle_partner_give_selection"
      [] state = PARTNER_PARTNER_OPTIONS /\ IsCallback(upd) -> "handle_partner_partner_selection"
      [] state = PARTNER_DETAILS_NAME /\ FilterPlainText(upd) -> "set_partner_details_name"
      [] state = PARTNER_DETAILS_PHONE /\ FilterPlainText(upd) -> "set_partner_details_phone"
      [] state = PARTNER_DETAILS_COUNTRY /\ FilterPlainText(upd) -> "set_partner_details_country"
      [] state = PARTNER_DETAILS_COUNTRY /\ IsCallback(upd)
           /\ upd.data = BACK_TO_PARTNER_CATEGORIES -> "handle_partner_main_selection"
      [] state = PARTNER_AMOUNT /\ FilterPlainText(upd) -> "set_partner_amount"
      [] state = PARTNER_PAYMENT_PROOF /\ FilterMedia(upd) -> "set_partner_payment_proof"
      [] state = CONTACT_ADMIN_INFO /\ IsCallback(upd)
           /\ upd.data = CONTACT_ADMIN -> "handle_contact_admin_button"
      [] state = PRAYER_NAME /\ FilterPlainText(upd) -> "set_prayer_name"
      [] state = PRAYER_INPUT /\ FilterPlainText(upd) -> "save_prayer_request"
      [] state = MEMBER_NAME /\ FilterPlainText(upd) -> "set_member_name"
      [] state = MEMBER_PHONE /\ FilterPlainText(upd) -> "set_member_phone"
      [] state = MEMBER_COUNTRY /\ FilterPlainText(upd) -> "set_member_country"
      [] state = SCHOOL_NAME /\ FilterPlainText(upd) -> "set_school_name"
      [] state = SCHOOL_PHONE /\ FilterPlainText(upd) -> "set_school_phone"
      [] state = SCHOOL_COUNTRY /\ FilterPlainText(upd) -> "set_school_country"
      [] state = MASTER_NAME /\ FilterPlainText(upd) -> "set_master_name"
      [] state = MASTER_PHONE /\ FilterPlainText(upd) -> "set_master_phone"
      [] state = MASTER_COUNTRY /\ FilterPlainText(upd) -> "set_master_country"
      [] OTHER -> "none"

\* fallbacks=[...]: the restart command, then any text, photo or document.
FallbackHandler(upd) ==
    IF IsStartCommand(upd) THEN "start"
    ELSE IF FilterText(upd) \/ FilterMedia(upd) THEN "start"
    ELSE "none"

\* The handler ConversationHandler runs for an update of a user whose
\* conversation is in `state`: an entry point when there is no
\* conversation, else a handler of the state, else a fallback; "none"
\* when the update is dropped.
Dispatch(state, upd) ==
    IF state = NoConv THEN (IF IsStartCommand(upd) THEN "start" ELSE "none")
    ELSE IF StateHandler(state, upd) # "none" THEN StateHandler(state, upd)
    ELSE FallbackHandler(upd)


--------------------------------------------------------------------------
(* The handlers.  Each is an operator from the state it reads and its    *)
(* inputs to what it does: the state it returns, the user_data it        *)
(* leaves, the messages it sends and the record-store calls it makes,    *)
(* in order.  `store` is the outcome of the record store for this        *)
(* update ("ok", or the exception it raises) and `ts` the timestamp      *)
(* datetime.now() gives.                                                 *)

\* One record-store call: append_row(row) or get_all_records() on a
\* worksheet, and whether it succeeded.
AppendCall(sheet, row, store) ==
    [op |-> "append_row", sheet |-> sheet, row |-> row, ok |-> store = "ok"]
ReadCall(sheet, store) ==
    [op |-> "get_all_records", sheet |-> sheet, row |-> <<>>, ok |-> store = "ok"]

\* What a handler does; `wrote` is the set of keys of user_data it assigns.
Result(next, ud, outs, cs) ==
    [next |-> next, ud |-> ud, outs |-> outs, calls |-> cs, wrote |-> {}]

Wrote(r, keys) == [r EXCEPT !.wrote = keys]

\* get_lang
get_lang(u) == IF user_languages[u] = Unset THEN <<"en">> ELSE user_languages[u]

\* The menu message every return to the main menu sends.
MenuMsg(lang) == Msg(<<"menu">>, lang, build_main_menu(lang))

RECURSIVE FirstDaily(_)
\* The loop of get_daily_message over the records dated today: the first
\* one with a scripture or a message decides.
FirstDaily(records) ==
    IF records = <<>> THEN <<>>
    ELSE IF Head(records).scripture /\ Head(records).message
         THEN <<"daily_scripture", "daily_message">>
    ELSE IF Head(records).scripture THEN <<"daily_scripture">>
    ELSE IF Head(records).message THEN <<"daily_message">>
    ELSE FirstDaily(Tail(records))

\* get_daily_message: "" (here <<>>) when the read fails or nothing is found.
get_daily_message(daily) ==
    IF daily.ok THEN FirstDaily(daily.today) ELSE <<>>

\* start() with the failure of the lookup not caught: nothing is sent and
\* the state returned is the one the conversation was in.
start_lookup_raises(u, daily) ==
    IF daily.ok THEN
        Result(LANG_SELECT, user_data[u],
               (IF get_daily_message(daily) # <<>>
                THEN <<Msg(get_daily_message(daily), <<>>, <<>>)>> ELSE <<>>)
                   \o <<Msg(<<"lang_prompt">>, <<>>, << <<"en">>, <<"es">>, <<"fr">>, <<"pt">> >>)>>,
               <<[op |-> "get_all_records", sheet |-> "Daily Messages",
                  row |-> <<>>, ok |-> TRUE]>>)
    ELSE Result(IF conv[u] = NoConv THEN LANG_SELECT ELSE conv[u], user_data[u], <<>>,
                <<[op |-> "get_all_records", sheet |-> "Daily Messages",
                   row |-> <<>>, ok |-> FALSE]>>)

\* start
start(u, daily) ==
    LET daily_msg == get_daily_message(daily)
        keyboard == << <<"en">>, <<"es">>, <<"fr">>, <<"pt">> >>
    IN Result(LANG_SELECT, user_data[u],
              (IF daily_msg # <<>> THEN <<Msg(daily_msg, <<>>, <<>>)>> ELSE <<>>)
                  \o <<Msg(<<"lang_prompt">>, <<>>, keyboard)>>,
              <<[op |-> "get_all_records", sheet |-> "Daily Messages",
                 row |-> <<>>, ok |-> daily.ok]>>)

\* ask_input with user_data.setdefault(key, text) in place of the assignment.
ask_input_setdefault(u, upd, key, prompt_key, next_state) ==
    LET lang == get_lang(u)
        stores == upd.kind = "text" /\ upd.text # <<>> /\ key \notin DOMAIN user_data[u]
    IN Wrote(Result(next_state,
                    IF stores THEN Put(user_data[u], key, upd.text) ELSE user_data[u],
                    <<Msg(<<prompt_key>>, lang, <<>>)>>,
                    <<>>),
             IF stores THEN {key} ELSE {})

\* ask_input
ask_input(u, upd, key, prompt_key, next_state) ==
    LET lang == get_lang(u)
        stores == upd.kind = "text" /\ upd.text # <<>>
    IN Wrote(Result(next_state,
                    IF stores THEN Put(user_data[u], key, upd.text) ELSE user_data[u],
                    <<Msg(<<prompt_key>>, lang, <<>>)>>,
                    <<>>),
             IF stores THEN {key} ELSE {})

\* The reset with the state set and the fields kept.
reset_keeps_fields(session) == [state |-> MENU, fields |-> session.fields]

\* The reset a commit ends with, on the observable session of a
\* participant (the conversation state and user_data):
\* context.user_data.clear(); return MENU.
reset(session) == [state |-> MENU, fields |-> EmptyDict]

\* save_to_sheet with user_data.clear() inside the try block.
save_to_sheet_clear_in_try(u, ud, sheet_obj, keys, success_message_key, store, ts) ==
    LET lang == get_lang(u)
        user_id == Str(u)
        data == <<user_id>> \o [i \in 1..Len(keys) |-> Get(ud, keys[i], <<>>)] \o <<ts>>
    IN Result(MENU, IF store = "ok" THEN EmptyDict ELSE ud,
              <<IF store = "ok" THEN Msg(<<success_message_key>>, lang, <<>>)
                ELSE Msg(<<"error_general">>, lang, <<>>),
                MenuMsg(lang)>>,
              <<AppendCall(sheet_obj, data, store)>>)

\* save_to_sheet, on the user_data `ud` its caller hands it.
save_to_sheet(u, ud, sheet_obj, keys, success_message_key, store, ts) ==
    LET lang == get_lang(u)
        user_id == Str(u)
        data == <<user_id>> \o [i \in 1..Len(keys) |-> Get(ud, keys[i], <<>>)] \o <<ts>>
    IN Result(MENU, EmptyDict,
              <<IF store = "ok" THEN Msg(<<success_message_key>>, lang, <<>>)
                ELSE Msg(<<"error_general">>, lang, <<>>),
                MenuMsg(lang)>>,
              <<AppendCall(sheet_obj, data, store)>>)

\* The reply of a phone handler to a text that fails the phone test.
InvalidPhone(u, state) ==
    LET lang == get_lang(u)
    IN Result(state, user_data[u],
              <<Msg(<<"invalid_input", "prompt_phone">>, lang, <<>>)>>, <<>>)

set_member_name(u, upd) == ask_input(u, upd, "member_name", "prompt_phone", MEMBER_PHONE)

set_member_phone(u, upd) ==
    IF ~PhoneOk(upd.text) THEN InvalidPhone(u, MEMBER_PHONE)
    ELSE ask_input(u, upd, "member_phone", "prompt_country", MEMBER_COUNTRY)

set_member_country(u, upd, store, ts) ==
    Wrote(save_to_sheet(u, Put(user_data[u], "member_country", upd.text), "Members",
                        <<"member_name", "member_phone", "member_country">>,
                        "member_signup_success", store, ts),
          {"member_country"})

set_prayer_name(u, upd) == ask_input(u, upd, "prayer_name", "prompt_prayer", PRAYER_INPUT)

\* save_prayer_request with the name and the prayer text exchanged in the row.
save_prayer_request_swapped(u, upd, store, ts) ==
    LET lang == get_lang(u)
        user_id == Str(u)
        prayer_name == Get(user_data[u], "prayer_name", <<"N","/","A">>)
        prayer_text == upd.text
    IN Result(MENU, EmptyDict,
              <<IF store = "ok" THEN Msg(<<"prayer_thankyou">>, lang, <<>>)
                ELSE Msg(<<"error_general">>, lang, <<>>),
                MenuMsg(lang)>>,
              <<AppendCall("Prayers", <<user_id, prayer_text, prayer_name, ts>>, store)>>)

save_prayer_request(u, upd, store, ts) ==
    LET lang == get_lang(u)
        user_id == Str(u)
        prayer_name == Get(user_data[u], "prayer_name", <<"N","/","A">>)
        prayer_text == upd.text
    IN Result(MENU, EmptyDict,
              <<IF store = "ok" THEN Msg(<<"prayer_thankyou">>, lang, <<>>)
                ELSE Msg(<<"error_general">>, lang, <<>>),
                MenuMsg(lang)>>,
              <<AppendCall("Prayers", <<user_id, prayer_name, prayer_text, ts>>, store)>>)

set_school_name(u, upd) == ask_input(u, upd, "school_name", "prompt_phone", SCHOOL_PHONE)

set_school_phone(u, upd) ==
    IF ~PhoneOk(upd.text) THEN InvalidPhone(u, SCHOOL_PHONE)
    ELSE ask_input(u, upd, "school_phone", "prompt_country", SCHOOL_COUNTRY)

\* set_school_country with the success message of the member signup.
set_school_country_member_message(u, upd, store, ts) ==
    Wrote(save_to_sheet(u, Put(user_data[u], "school_country", upd.text), "School of Discipleship",
                        <<"school_name", "school_phone", "school_country">>,
                        "member_signup_success", store, ts),
          {"school_country"})

set_school_country(u, upd, store, ts) ==
    Wrote(save_to_sheet(u, Put(user_data[u], "school_country", upd.text), "School of Discipleship",
                        <<"school_name", "school_phone", "school_country">>,
                        "school_signup_success", store, ts),
          {"school_country"})

set_master_name(u, upd) == ask_input(u, upd, "master_name", "prompt_phone", MASTER_PHONE)

set_master_phone(u, upd) ==
    IF ~PhoneOk(upd.text) THEN InvalidPhone(u, MASTER_PHONE)
    ELSE ask_input(u, upd, "master_phone", "prompt_country", MASTER_COUNTRY)

\* set_master_country appending to the Members worksheet.
set_master_country_members_sheet(u, upd, store, ts) ==
    Wrote(save_to_sheet(u, Put(user_data[u], "master_country", upd.text), "Members",
                        <<"master_name", "master_phone", "master_country">>,
                        "masterclass_signup_success", store, ts),
          {"master_country"})

set_master_country(u, upd, store, ts) ==
    Wrote(save_to_sheet(u, Put(user_data[u], "master_country", upd.text), "Master Class",
                        <<"master_name", "master_phone", "master_country">>,
                        "masterclass_signup_success", store, ts),
          {"master_country"})


\* The statistics message of the admin dashboard: each worksheet's name
\* and the count reported for it.
StatsMsg(counts) ==
    Msg(<<"stats", "Members">> \o NatToStr(counts[1])
        \o <<"Prayers">> \o NatToStr(counts[2])
        \o <<"Partners">> \o NatToStr(counts[3])
        \o <<"School of Discipleship">> \o NatToStr(counts[4])
        \o <<"Master Class">> \o NatToStr(counts[5]),
        <<>>, <<>>)

Max0(n) == IF n > 0 THEN n ELSE 0

\* The admin branch of handle_menu for the operator: get_all_records()
\* gives the data rows of a worksheet (the header row is its keys).
admin_stats(u, store) ==
    LET lang == get_lang(u)
        order == <<"Members", "Prayers", "Partners", "School of Discipleship",
                   "Master Class">>
        counts == [i \in 1..5 |-> Max0(Len(sheets[order[i]]) - 1)]
        reads == [i \in 1..5 |-> ReadCall(order[i], store)]
    IN CASE store = "ok" -> Result(MENU, user_data[u], <<StatsMsg(counts)>>, reads)
         [] store = "api_header" ->
              Result(MENU, user_data[u], <<Msg(<<"api_header_error">>, <<>>, <<>>)>>,
                     <<reads[1]>>)
         [] store = "api_error" ->
              Result(MENU, user_data[u], <<Msg(<<"api_error">>, <<>>, <<>>)>>,
                     <<reads[1]>>)
         [] OTHER ->
              Result(MENU, user_data[u], <<Msg(<<"error_general">>, lang, <<>>)>>,
                     <<reads[1]>>)

\* show_partner_main_options going to the give options at once.
show_partner_main_options_give(u) ==
    LET lang == get_lang(u)
        keyboard == <<SHOW_GIVE_OPTIONS, SHOW_PARTNER_OPTIONS, BACK_TO_MENU>>
    IN Result(PARTNER_GIVE_OPTIONS, user_data[u],
              <<Msg(<<"partner_main_options_prompt">>, lang, keyboard)>>, <<>>)

\* show_partner_main_options
show_partner_main_options(u) ==
    LET lang == get_lang(u)
        keyboard == <<SHOW_GIVE_OPTIONS, SHOW_PARTNER_OPTIONS, BACK_TO_MENU>>
    IN Result(PARTNER_MAIN_OPTIONS, user_data[u],
              <<Msg(<<"partner_main_options_prompt">>, lang, keyboard)>>, <<>>)

\* handle_menu without the test of the requester's id in the admin branch.
handle_menu_any_requester(u, upd, store) ==
    LET lang == get_lang(u)
        text == upd.data
        b == Buttons(lang)
        say(keys) == Msg(keys, lang, <<>>)
    IN CASE text = b[1] ->
              Result(MEMBER_NAME, user_data[u], <<say(<<"prompt_name">>)>>, <<>>)
         [] text = b[2] ->
              Result(PRAYER_NAME, user_data[u], <<say(<<"prompt_name">>)>>, <<>>)
         [] text = b[3] ->
              Result(SCHOOL_NAME, user_data[u],
                     <<say(<<"scripture_discipleship">>), say(<<"prompt_name">>)>>, <<>>)
         [] text = b[4] ->
              Result(MASTER_NAME, user_data[u],
                     <<say(<<"scripture_masterclass">>), say(<<"prompt_name">>)>>, <<>>)
         [] text = b[5] -> show_partner_main_options(u)
         [] text = b[6] -> admin_stats(u, store)
         [] text = BACK_TO_MENU ->
              Result(MENU, user_data[u], <<MenuMsg(lang)>>, <<>>)
         [] OTHER ->
              Result(MENU, user_data[u], <<say(<<"unknown_option">>)>>, <<>>)

\* handle_menu
handle_menu(u, upd, store) ==
    LET lang == get_lang(u)
        text == upd.data
        b == Buttons(lang)
        say(keys) == Msg(keys, lang, <<>>)
    IN CASE text = b[1] ->
              Result(MEMBER_NAME, user_data[u], <<say(<<"prompt_name">>)>>, <<>>)
         [] text = b[2] ->
              Result(PRAYER_NAME, user_data[u], <<say(<<"prompt_name">>)>>, <<>>)
         [] text = b[3] ->
              Result(SCHOOL_NAME, user_data[u],
                     <<say(<<"scripture_discipleship">>), say(<<"prompt_name">>)>>, <<>>)
         [] text = b[4] ->
              Result(MASTER_NAME, user_data[u],
                     <<say(<<"scripture_masterclass">>), say(<<"prompt_name">>)>>, <<>>)
         [] text = b[5] -> show_partner_main_options(u)
         [] text = b[6] ->
              IF u # ADMIN_ID
                  THEN Result(MENU, user_data[u], <<say(<<"access_denied">>)>>, <<>>)
                  ELSE admin_stats(u, store)
         [] text = BACK_TO_MENU ->
              Result(MENU, user_data[u], <<MenuMsg(lang)>>, <<>>)
         [] OTHER ->
              Result(MENU, user_data[u], <<say(<<"unknown_option">>)>>, <<>>)

\* The branch the three partner selection handlers share: the payload is
\* stored as the partner type and the name is asked for.
store_partner_type(u, selected_option) ==
    Wrote(Result(PARTNER_DETAILS_NAME,
                 Put(user_data[u], "partner_type", selected_option),
                 <<Msg(<<"prompt_name">>, get_lang(u), <<>>)>>, <<>>),
          {"partner_type"})

\* handle_partner_main_selection
handle_partner_main_selection(u, upd) ==
    LET lang == get_lang(u)
        selected_option == upd.data
        give_options == partner_give_options[lang[1]]
        partner_options == partner_partner_options[lang[1]]
    IN CASE selected_option = BACK_TO_MENU ->
              Result(MENU, user_data[u], <<MenuMsg(lang)>>, <<>>)
         [] selected_option = SHOW_GIVE_OPTIONS ->
              Result(PARTNER_GIVE_OPTIONS, user_data[u],
                     <<Msg(<<"select_giving_option">>, <<>>,
                           [i \in 1..Len(give_options) |-> GiveCallback(give_options[i])]
                               \o <<BACK_TO_PARTNER_CATEGORIES>>)>>,
                     <<>>)
         [] selected_option = SHOW_PARTNER_OPTIONS ->
              Result(PARTNER_PARTNER_OPTIONS, user_data[u],
                     <<Msg(<<"select_partnership_option">>, <<>>,
                           [i \in 1..Len(partner_options) |->
                               PartnerCallback(partner_options[i])]
                               \o <<BACK_TO_PARTNER_CATEGORIES>>)>>,
                     <<>>)
         [] OTHER -> store_partner_type(u, selected_option)

\* handle_partner_give_selection
handle_partner_give_selection(u, upd) ==
    IF upd.data = BACK_TO_PARTNER_CATEGORIES THEN show_partner_main_options(u)
    ELSE store_partner_type(u, upd.data)

\* handle_partner_partner_selection with the back option leading to the
\* main menu.
handle_partner_partner_selection_to_menu(u, upd) ==
    IF upd.data = BACK_TO_PARTNER_CATEGORIES
    THEN Result(MENU, user_data[u], <<MenuMsg(get_lang(u))>>, <<>>)
    ELSE store_partner_type(u, upd.data)

\* handle_partner_partner_selection
handle_partner_partner_selection(u, upd) ==
    IF upd.data = BACK_TO_PARTNER_CATEGORIES THEN show_partner_main_options(u)
    ELSE store_partner_type(u, upd.data)

set_partner_details_name(u, upd) ==
    ask_input(u, upd, "partner_name", "prompt_phone", PARTNER_DETAILS_PHONE)

set_partner_details_phone(u, upd) ==
    IF ~PhoneOk(upd.text) THEN InvalidPhone(u, PARTNER_DETAILS_PHONE)
    ELSE ask_input(u, upd, "partner_phone", "prompt_country", PARTNER_DETAILS_COUNTRY)

SouthAfrica == <<"s","o","u","t","h"," ","a","f","r","i","c","a">>

\* set_partner_details_country testing the country without lower().
set_partner_details_country_no_lower(u, upd) ==
    LET lang == get_lang(u)
        country == Title(Strip(upd.text))
        domestic == Contains(country, SouthAfrica)
    IN Wrote(Result(PARTNER_AMOUNT, Put(user_data[u], "partner_country", country),
                    <<IF domestic
                          THEN Msg(<<"payment_sa">>, lang, <<BACK_TO_PARTNER_CATEGORIES>>)
                          ELSE Msg(<<"payment_international">>, lang,
                                   <<CONTACT_ADMIN, BACK_TO_PARTNER_CATEGORIES>>),
                      Msg(<<"prompt_amount">>, lang, <<>>)>>,
                    <<>>),
             {"partner_country"})

\* set_partner_details_country
set_partner_details_country(u, upd) ==
    LET lang == get_lang(u)
        country == Title(Strip(upd.text))
        domestic == Contains(LowerStr(country), SouthAfrica)
    IN Wrote(Result(PARTNER_AMOUNT, Put(user_data[u], "partner_country", country),
                    <<IF domestic
                          THEN Msg(<<"payment_sa">>, lang, <<BACK_TO_PARTNER_CATEGORIES>>)
                          ELSE Msg(<<"payment_international">>, lang,
                                   <<CONTACT_ADMIN, BACK_TO_PARTNER_CATEGORIES>>),
                      Msg(<<"prompt_amount">>, lang, <<>>)>>,
                    <<>>),
             {"partner_country"})

\* handle_contact_admin_button
handle_contact_admin_button(u, upd) ==
    LET lang == get_lang(u)
    IN Result(MENU, user_data[u],
              <<Msg(<<"admin_contact_info", ADMIN_ID>>, lang, <<>>), MenuMsg(lang)>>,
              <<>>)

\* set_partner_amount
set_partner_amount(u, upd) ==
    LET lang == get_lang(u)
        amount == ParseFloat(upd.text)
    IN IF amount.ok /\ ~FloatLeqZero(amount)
       THEN Wrote(Result(PARTNER_PAYMENT_PROOF,
                         Put(user_data[u], "partner_amount", Format2f(amount)),
                         <<Msg(<<"prompt_payment_proof">>, lang, <<>>)>>, <<>>),
                  {"partner_amount"})
       ELSE Result(PARTNER_AMOUNT, user_data[u],
                   <<Msg(<<"invalid_input", "prompt_amount">>, lang, <<>>)>>, <<>>)

\* set_partner_payment_proof taking photo[0], the smallest size.
set_partner_payment_proof_first_size(u, upd, store, ts) ==
    LET lang == get_lang(u)
        file_id == IF upd.photo # <<>> THEN upd.photo[1] ELSE upd.document
    IN IF upd.photo = <<>> /\ upd.document = <<>>
       THEN Result(PARTNER_PAYMENT_PROOF, user_data[u],
                   <<Msg(<<"upload_proof_error">>, lang, <<>>)>>, <<>>)
       ELSE Wrote(save_to_sheet(u, Put(user_data[u], "payment_proof_file_id", file_id),
                                "Partners",
                                <<"partner_type", "partner_name", "partner_phone",
                                  "partner_country", "partner_amount",
                                  "payment_proof_file_id">>,
                                "partner_thankyou", store, ts),
                  {"payment_proof_file_id"})

\* set_partner_payment_proof
set_partner_payment_proof(u, upd, store, ts) ==
    LET lang == get_lang(u)
        file_id == IF upd.photo # <<>> THEN upd.photo[Len(upd.photo)] ELSE upd.document
    IN IF upd.photo = <<>> /\ upd.document = <<>>
       THEN Result(PARTNER_PAYMENT_PROOF, user_data[u],
                   <<Msg(<<"upload_proof_error">>, lang, <<>>)>>, <<>>)
       ELSE Wrote(save_to_sheet(u, Put(user_data[u], "payment_proof_file_id", file_id),
                                "Partners",
                                <<"partner_type", "partner_name", "partner_phone",
                                  "partner_country", "partner_amount",
                                  "payment_proof_file_id">>,
                                "partner_thankyou", store, ts),
                  {"payment_proof_file_id"})

\* language_selected: the code is stored first; the welcome lookup then
\* raises KeyError for a code that is no language, the handler returns no
\* state (the conversation stays where it was) and error_handler, reading
\* the same code through get_lang, raises on its own lookup and sends nothing.
language_selected(u, upd) ==
    LET lang_code == upd.data
    IN IF HasTranslation(lang_code)
       THEN Result(MENU, user_data[u],
                   <<Msg(<<"welcome">>, lang_code, <<>>), MenuMsg(lang_code)>>, <<>>)
       ELSE Result(conv[u], user_data[u], <<>>, <<>>)


--------------------------------------------------------------------------
(* The inputs the environment chooses from.  A participant sends the     *)
(* ordinary updates: a text of BaseTexts, a photo, a document, a message *)
(* of another kind, or a tap on a button of the keyboard the state they  *)
(* are in was entered with.  On top of these a behaviour has one stray   *)
(* update, fixed at its start, which may arrive in any state: a tap on a *)
(* button of an older keyboard, or an unusual text.                      *)

tGrace == <<"G","r","a","c","e">>
tPhone == <<"+","2","7">>
tStart == <<"/","s","t","a","r","t">>
tHelp == <<"/","h","e","l","p">>

\* The texts every behaviour has: a phone number (which is a name, a
\* country and an amount as well), the restart command, another command.
BaseTexts == {tPhone, tStart, tHelp}

\* The keyboard start() sends.
LanguageKeyboard == << <<"en">>, <<"es">>, <<"fr">>, <<"pt">> >>

\* The keyboard of the give options and of the partner options.
GiveKeyboard(lang) ==
    [i \in 1..Len(partner_give_options[lang[1]]) |->
        GiveCallback(partner_give_options[lang[1]][i])] \o <<BACK_TO_PARTNER_CATEGORIES>>
PartnerKeyboard(lang) ==
    [i \in 1..Len(partner_partner_options[lang[1]]) |->
        PartnerCallback(partner_partner_options[lang[1]][i])]
    \o <<BACK_TO_PARTNER_CATEGORIES>>

Range(seq) == {seq[i] : i \in 1..Len(seq)}

\* The payloads of the keyboard a state is entered with.
Offered(state, lang) ==
    CASE state = LANG_SELECT -> Range(LanguageKeyboard)
      [] state = MENU -> Range(build_main_menu(lang))
      [] state = PARTNER_MAIN_OPTIONS ->
           {SHOW_GIVE_OPTIONS, SHOW_PARTNER_OPTIONS, BACK_TO_MENU}
      [] state = PARTNER_GIVE_OPTIONS -> Range(GiveKeyboard(lang))
      [] state = PARTNER_PARTNER_OPTIONS -> Range(PartnerKeyboard(lang))
      [] OTHER -> {}

\* The offered payloads a participant taps in this model: of the language
\* codes only "en", of the categories one give option and one partner
\* option of each language.
TapAlphabet ==
    {<<"en">>}
    \cup UNION {Range(buttons[l[1]]) : l \in LANGUAGES}
    \cup {SHOW_GIVE_OPTIONS, SHOW_PARTNER_OPTIONS, BACK_TO_MENU, BACK_TO_PARTNER_CATEGORIES}
    \cup {GiveCallback(partner_give_options[l[1]][1]) : l \in LANGUAGES}
    \cup {PartnerCallback(partner_partner_options[l[1]][2]) : l \in LANGUAGES}

PhotoSizes == << <<"photo_small">>, <<"photo_large">> >>

\* The ordinary updates that are no taps.
BaseUpdates ==
    {TextUpdate(t) : t \in BaseTexts}
    \cup {PhotoUpdate(PhotoSizes), DocumentUpdate(<<"document_1">>), OtherUpdate}

\* The stray updates a behaviour chooses one of.
Strays ==
    {CallbackUpdate(d) :
        d \in {<<"es">>, buttons.en[2], BACK_TO_MENU, BACK_TO_PARTNER_CATEGORIES,
               CONTACT_ADMIN}}
    \cup {TextUpdate(tGrace)}

\* The stray updates of the behaviours of participant u: the operator's
\* differ from another participant's in the admin branch of the menu only.
StraysOf(u) == IF u = ADMIN_ID THEN {CallbackUpdate(CONTACT_ADMIN)} ELSE Strays

\* The characters of the texts sent to a phone step in PhoneSpec: the plus
\* sign, a decimal digit, the superscript two and a letter.
PhoneAlphabet == {"+", "7", Sup2, "a"}

\* Every text of 1..n characters of PhoneAlphabet.
TextsUpTo(n) == UNION {[1..k -> PhoneAlphabet] : k \in 1..n}

PhoneTexts == TextsUpTo(MaxPhoneLen)

tSouthAfricaLower == <<"s","o","u","t","h"," ","a","f","r","i","c","a">>
tSouthAfricaUpper == <<" ","S","O","U","T","H"," ","A","F","R","I","C","A"," ">>
tSouthAfrican == <<"S","o","u","t","h"," ","A","f","r","i","c","a","n">>
tSouthSudan == <<"s","o","u","t","h"," ","s","u","d","a","n">>
tGhana == <<"G","h","a","n","a">>
tGhanaLower == <<"g","h","a","n","a"," ">>

\* The texts sent to the country step in PaymentSpec.
CountryTexts ==
    {tSouthAfricaLower, tSouthAfricaUpper, tSouthAfrican, tSouthSudan, tGhana,
     tGhanaLower}

\* The characters of the amount texts: two digits, the decimal point and
\* the minus sign.
AmountAlphabet == {"0", "5", ".", "-"}

\* The amount texts: every text of 1..MaxAmountLen characters of
\* AmountAlphabet, and a few others: words, the float literals that are
\* no decimal numbers, an amount under half a cent, an amount with spaces
\* around it.
AmountTexts ==
    UNION {[1..k -> AmountAlphabet] : k \in 1..MaxAmountLen}
    \cup {tGrace, tPhone,
          <<"n","a","n">>, <<"i","n","f">>, <<"-","i","n","f">>,
          <<"0",".","0","0","1">>, <<"0",".","0","0","5">>, <<"2","5","0">>,
          <<" ","5","0"," ">>, <<"-","0",".","5">>}

tBlank == <<" ">>
tBlanks == <<" ", " ">>
tGraceSpaced == <<" ","G","r","a","c","e"," ">>

\* The texts sent to the name steps and as the prayer text in TextSpec: a
\* name, a name with spaces around it, and texts of white space only.
NameTexts == {tGrace, tGraceSpaced, tBlank, tBlanks}

\* Every update of the model.
Updates ==
    BaseUpdates \cup Strays \cup {CallbackUpdate(d) : d \in TapAlphabet}
    \cup {TextUpdate(t) : t \in PhoneTexts \cup CountryTexts \cup AmountTexts \cup NameTexts}

\* Outcomes of the record store for one update: success, a gspread
\* APIError about the header row, another APIError, any other exception.
StoreOutcomes == {"ok", "api_header", "api_error", "error"}

\* datetime.now().strftime(...)
Timestamps == {<<"2026-01-01 10:00:00">>}

\* Outcomes of the read of the Daily Messages worksheet: a failure, or the
\* records dated today, each with or without a scripture and a message.
DailyLookups ==
    {[ok |-> FALSE, today |-> <<>>],
     [ok |-> TRUE, today |-> <<>>],
     [ok |-> TRUE, today |-> <<[scripture |-> FALSE, message |-> FALSE],
                               [scripture |-> TRUE, message |-> TRUE]>>]}

--------------------------------------------------------------------------
(* The state machine. *)

RECURSIVE ApplyCalls(_, _)
\* The worksheets after the record-store calls of one handler.
ApplyCalls(sh, cs) ==
    IF cs = <<>> THEN sh
    ELSE IF Head(cs).op = "append_row" /\ Head(cs).ok
         THEN ApplyCalls([sh EXCEPT ![Head(cs).sheet] = Append(@, Head(cs).row)], Tail(cs))
    ELSE ApplyCalls(sh, Tail(cs))

\* The record of an update `upd` of user u: the handler that ran for it
\* ("none" when it was dropped), the conversation state, the user_data and
\* the worksheets it found, the messages it sent and the record-store
\* calls it made.  The update itself is recorded when a handler of the
\* state ran for it: start() reads nothing of its update.
Latest(u, upd, h, outs, cs) ==
    [user |-> u, input |-> IF h \in {"start", "none"} THEN NoUpdate ELSE upd,
     handler |-> h,
     from |-> conv[u], ud |-> user_data[u], before |-> sheets,
     sent |-> outs, calls |-> cs]

\* The effect of running handler `h` with result `r` for an update `upd`
\* of user u: ConversationHandler stores the state returned, the handler's
\* sends, writes and record-store calls take effect.
Handle(u, upd, h, r) ==
    /\ conv' = [conv EXCEPT ![u] = r.next]
    /\ user_data' = [user_data EXCEPT ![u] = r.ud]
    /\ sheets' = ApplyCalls(sheets, r.calls)
    /\ last' = Latest(u, upd, h, r.outs, r.calls)
    /\ fresh' = [fresh EXCEPT ![u] =
                    (IF conv[u] \in {NoConv, LANG_SELECT, MENU} THEN {} ELSE @)
                        \cup r.wrote]
    /\ UNCHANGED <<queue, tasks>>

\* Dispatch, tabulated over the states and the updates of the model.
DispatchTable ==
    [state \in States \cup {NoConv} |-> [upd \in Updates |-> Dispatch(state, upd)]]

Runs(u, upd, h) == DispatchTable[conv[u]][upd] = h

Start(u, upd, daily) ==
    /\ Runs(u, upd, "start")
    /\ Handle(u, upd, "start", start(u, daily))
    /\ UNCHANGED <<user_languages, flows, cast, stray>>

\* language_selected with one language for the whole bot instead of an
\* entry per user id.
LanguageSelected_one_language(u, upd) ==
    /\ Runs(u, upd, "language_selected")
    /\ user_languages' = [v \in Users |-> upd.data]
    /\ Handle(u, upd, "language_selected", language_selected(u, upd))
    /\ UNCHANGED <<flows, cast, stray>>

LanguageSelected(u, upd) ==
    /\ Runs(u, upd, "language_selected")
    /\ user_languages' = [user_languages EXCEPT ![u] = upd.data]
    /\ Handle(u, upd, "language_selected", language_selected(u, upd))
    /\ UNCHANGED <<flows, cast, stray>>

\* The states handle_menu enters a flow with.
EntersFlow(state) ==
    state \in {MEMBER_NAME, PRAYER_NAME, SCHOOL_NAME, MASTER_NAME, PARTNER_MAIN_OPTIONS}

HandleMenu(u, upd, store) ==
    /\ Runs(u, upd, "handle_menu")
    /\ Handle(u, upd, "handle_menu", handle_menu(u, upd, store))
    /\ flows' = IF EntersFlow(handle_menu(u, upd, store).next) THEN flows + 1 ELSE flows
    /\ flows' <= MaxFlows
    /\ UNCHANGED <<user_languages, cast, stray>>

SetMemberName(u, upd) ==
    /\ Runs(u, upd, "set_member_name")
    /\ Handle(u, upd, "set_member_name", set_member_name(u, upd))
    /\ UNCHANGED <<user_languages, flows, cast, stray>>

SetMemberPhone(u, upd) ==
    /\ Runs(u, upd, "set_member_phone")
    /\ Handle(u, upd, "set_member_phone", set_member_phone(u, upd))
    /\ UNCHANGED <<user_languages, flows, cast, stray>>

\* set_member_country with a reset that forgets the language as well.
SetMemberCountry_forgets_language(u, upd, store, ts) ==
    /\ Runs(u, upd, "set_member_country")
    /\ Handle(u, upd, "set_member_country", set_member_country(u, upd, store, ts))
    /\ user_languages' = [user_languages EXCEPT ![u] = Unset]
    /\ UNCHANGED <<flows, cast, stray>>

SetMemberCountry(u, upd, store, ts) ==
    /\ Runs(u, upd, "set_member_country")
    /\ Handle(u, upd, "set_member_country", set_member_country(u, upd, store, ts))
    /\ UNCHANGED <<user_languages, flows, cast, stray>>

SetPrayerName(u, upd) ==
    /\ Runs(u, upd, "set_prayer_name")
    /\ Handle(u, upd, "set_prayer_name", set_prayer_name(u, upd))
    /\ UNCHANGED <<user_languages, flows, cast, stray>>

SavePrayerRequest(u, upd, store, ts) ==
    /\ Runs(u, upd, "save_prayer_request")
    /\ Handle(u, upd, "save_prayer_request", save_prayer_request(u, upd, store, ts))
    /\ UNCHANGED <<user_languages, flows, cast, stray>>

SetSchoolName(u, upd) ==
    /\ Runs(u, upd, "set_school_name")
    /\ Handle(u, upd, "set_school_name", set_school_name(u, upd))
    /\ UNCHANGED <<user_languages, flows, cast, stray>>

SetSchoolPhone(u, upd) ==
    /\ Runs(u, upd, "set_school_phone")
    /\ Handle(u, upd, "set_school_phone", set_school_phone(u, upd))
    /\ UNCHANGED <<user_languages, flows, cast, stray>>

SetSchoolCountry(u, upd, store, ts) ==
    /\ Runs(u, upd, "set_school_country")
    /\ Handle(u, upd, "set_school_country", set_school_country(u, upd, store, ts))
    /\ UNCHANGED <<user_languages, flows, cast, stray>>

SetMasterName(u, upd) ==
    /\ Runs(u, upd, "set_master_name")
    /\ Handle(u, upd, "set_master_name", set_master_name(u, upd))
    /\ UNCHANGED <<user_languages, flows, cast, stray>>

SetMasterPhone(u, upd) ==
    /\ Runs(u, upd, "set_master_phone")
    /\ Handle(u, upd, "set_master_phone", set_master_phone(u, upd))
    /\ UNCHANGED <<user_languages, flows, cast, stray>>

SetMasterCountry(u, upd, store, ts) ==
    /\ Runs(u, upd, "set_master_country")
    /\ Handle(u, upd, "set_master_country", set_master_country(u, upd, store, ts))
    /\ UNCHANGED <<user_languages, flows, cast, stray>>

HandlePartnerMainSelection(u, upd) ==
    /\ Runs(u, upd, "handle_partner_main_selection")
    /\ Handle(u, upd, "handle_partner_main_selection", handle_partner_main_selection(u, upd))
    /\ UNCHANGED <<user_languages, flows, cast, stray>>

HandlePartnerGiveSelection(u, upd) ==
    /\ Runs(u, upd, "handle_partner_give_selection")
    /\ Handle(u, upd, "handle_partner_give_selection", handle_partner_give_selection(u, upd))
    /\ UNCHANGED <<user_languages, flows, cast, stray>>

HandlePartnerPartnerSelection(u, upd) ==
    /\ Runs(u, upd, "handle_partner_partner_selection")
    /\ Handle(u, upd, "handle_partner_partner_selection", handle_partner_partner_selection(u, upd))
    /\ UNCHANGED <<user_languages, flows, cast, stray>>

SetPartnerDetailsName(u, upd) ==
    /\ Runs(u, upd, "set_partner_details_name")
    /\ Handle(u, upd, "set_partner_details_name", set_partner_details_name(u, upd))
    /\ UNCHANGED <<user_languages, flows, cast, stray>>

SetPartnerDetailsPhone(u, upd) ==
    /\ Runs(u, upd, "set_partner_details_phone")
    /\ Handle(u, upd, "set_partner_details_phone", set_partner_details_phone(u, upd))
    /\ UNCHANGED <<user_languages, flows, cast, stray>>

SetPartnerDetailsCountry(u, upd) ==
    /\ Runs(u, upd, "set_partner_details_country")
    /\ Handle(u, upd, "set_partner_details_country", set_partner_details_country(u, upd))
    /\ UNCHANGED <<user_languages, flows, cast, stray>>

SetPartnerAmount(u, upd) ==
    /\ Runs(u, upd, "set_partner_amount")
    /\ Handle(u, upd, "set_partner_amount", set_partner_amount(u, upd))
    /\ UNCHANGED <<user_languages, flows, cast, stray>>

SetPartnerPaymentProof(u, upd, store, ts) ==
    /\ Runs(u, upd, "set_partner_payment_proof")
    /\ Handle(u, upd, "set_partner_payment_proof", set_partner_payment_proof(u, upd, store, ts))
    /\ UNCHANGED <<user_languages, flows, cast, stray>>

\* No state ever returned is CONTACT_ADMIN_INFO, so this handler is not
\* among the steps of Next.
HandleContactAdminButton(u, upd) ==
    /\ Runs(u, upd, "handle_contact_admin_button")
    /\ Handle(u, upd, "handle_contact_admin_button", handle_contact_admin_button(u, upd))
    /\ UNCHANGED <<user_languages, flows, cast, stray>>

\* An update no entry point, state handler or fallback accepts is dropped.
Dropped(u, upd) ==
    /\ Runs(u, upd, "none")
    /\ last' = Latest(u, upd, "none", <<>>, <<>>)
    /\ UNCHANGED <<conv, user_data, user_languages, sheets, flows, fresh, cast, stray,
                   queue, tasks>>

\* The updates user u may send now.
Inputs(u) ==
    BaseUpdates
    \cup {CallbackUpdate(d) : d \in Offered(conv[u], get_lang(u)) \cap TapAlphabet}
    \cup {stray}

Init ==
    /\ conv = [u \in Users |-> NoConv]
    /\ user_data = [u \in Users |-> EmptyDict]
    /\ user_languages = [u \in Users |-> Unset]
    /\ sheets = [n \in SheetNames |-> <<>>]
    /\ flows = 0
    /\ last = [user |-> "nobody", input |-> NoUpdate, handler |-> "none",
               from |-> NoConv, ud |-> EmptyDict, before |-> sheets,
               sent |-> <<>>, calls |-> <<>>]
    /\ fresh = [u \in Users |-> {}]
    /\ queue = <<>>
    /\ tasks = <<>>
    /\ \E u \in Users : cast = {u} /\ stray \in StraysOf(u)

\* One update of the participant of this behaviour, handled by the handler
\* ConversationHandler dispatches it to: an entry point or a fallback
\* (Start), a handler registered for the state the conversation is in, or
\* none.
Next ==
    \/ \E u \in cast :
           \E upd \in Inputs(u) : \E daily \in DailyLookups :
                  Start(u, upd, daily)
    \/ \E u \in cast :
           /\ conv[u] = LANG_SELECT
           /\ \E upd \in Inputs(u) : LanguageSelected(u, upd)
    \/ \E u \in cast :
           /\ conv[u] = MENU
           /\ \E upd \in Inputs(u) : \E store \in StoreOutcomes :
                  HandleMenu(u, upd, store)
    \/ \E u \in cast :
           /\ conv[u] = MEMBER_NAME
           /\ \E upd \in Inputs(u) : SetMemberName(u, upd)
    \/ \E u \in cast :
           /\ conv[u] = MEMBER_PHONE
           /\ \E upd \in Inputs(u) : SetMemberPhone(u, upd)
    \/ \E u \in cast :
           /\ conv[u] = MEMBER_COUNTRY
           /\ \E upd \in Inputs(u) : \E store \in StoreOutcomes, ts \in Timestamps :
                  SetMemberCountry(u, upd, store, ts)
    \/ \E u \in cast :
           /\ conv[u] = PRAYER_NAME
           /\ \E upd \in Inputs(u) : SetPrayerName(u, upd)
    \/ \E u \in cast :
           /\ conv[u] = PRAYER_INPUT
           /\ \E upd \in Inputs(u) : \E store \in StoreOutcomes, ts \in Timestamps :
                  SavePrayerRequest(u, upd, store, ts)
    \/ \E u \in cast :
           /\ conv[u] = SCHOOL_NAME
           /\ \E upd \in Inputs(u) : SetSchoolName(u, upd)
    \/ \E u \in cast :
           /\ conv[u] = SCHOOL_PHONE
           /\ \E upd \in Inputs(u) : SetSchoolPhone(u, upd)
    \/ \E u \in cast :
           /\ conv[u] = SCHOOL_COUNTRY
           /\ \E upd \in Inputs(u) : \E store \in StoreOutcomes, ts \in Timestamps :
                  SetSchoolCountry(u, upd, store, ts)
    \/ \E u \in cast :
           /\ conv[u] = MASTER_NAME
           /\ \E upd \in Inputs(u) : SetMasterName(u, upd)
    \/ \E u \in cast :
           /\ conv[u] = MASTER_PHONE
           /\ \E upd \in Inputs(u) : SetMasterPhone(u, upd)
    \/ \E u \in cast :
           /\ conv[u] = MASTER_COUNTRY
           /\ \E upd \in Inputs(u) : \E store \in StoreOutcomes, ts \in Timestamps :
                  SetMasterCountry(u, upd, store, ts)
    \/ \E u \in cast :
           /\ conv[u] \in {PARTNER_MAIN_OPTIONS, PARTNER_DETAILS_COUNTRY}
           /\ \E upd \in Inputs(u) : HandlePartnerMainSelection(u, upd)
    \/ \E u \in cast :
           /\ conv[u] = PARTNER_GIVE_OPTIONS
           /\ \E upd \in Inputs(u) : HandlePartnerGiveSelection(u, upd)
    \/ \E u \in cast :
           /\ conv[u] = PARTNER_PARTNER_OPTIONS
           /\ \E upd \in Inputs(u) : HandlePartnerPartnerSelection(u, upd)
    \/ \E u \in cast :
           /\ conv[u] = PARTNER_DETAILS_NAME
           /\ \E upd \in Inputs(u) : SetPartnerDetailsName(u, upd)
    \/ \E u \in cast :
           /\ conv[u] = PARTNER_DETAILS_PHONE
           /\ \E upd \in Inputs(u) : SetPartnerDetailsPhone(u, upd)
    \/ \E u \in cast :
           /\ conv[u] = PARTNER_DETAILS_COUNTRY
           /\ \E upd \in Inputs(u) : SetPartnerDetailsCountry(u, upd)
    \/ \E u \in cast :
           /\ conv[u] = PARTNER_AMOUNT
           /\ \E upd \in Inputs(u) : SetPartnerAmount(u, upd)
    \/ \E u \in cast :
           /\ conv[u] = PARTNER_PAYMENT_PROOF
           /\ \E upd \in Inputs(u) : \E store \in StoreOutcomes, ts \in Timestamps :
                  SetPartnerPaymentProof(u, upd, store, ts)
    \/ \E u \in cast :
           \E upd \in Inputs(u) : Dropped(u, upd)

Spec == Init /\ [][Next]_vars

--------------------------------------------------------------------------
(* The phone steps on their own, with every short text over PhoneAlphabet *)
(* as input.  A behaviour starts where Spec arrives when a participant    *)
(* who chose English enters one of the four flows that ask for a phone    *)
(* number first of all and sends tPhone as the name (in the partner       *)
(* flow, after choosing the first give option).                           *)

\* The flows with a phone step: the state of the step, the handler of the
\* name step before it, the key of the name, the key of the phone, the
\* handler of the phone step and the state it advances to.
PhoneFlows ==
    {[name_state |-> MEMBER_NAME, name_handler |-> "set_member_name",
      name_key |-> "member_name", state |-> MEMBER_PHONE,
      handler |-> "set_member_phone", key |-> "member_phone", next |-> MEMBER_COUNTRY],
     [name_state |-> SCHOOL_NAME, name_handler |-> "set_school_name",
      name_key |-> "school_name", state |-> SCHOOL_PHONE,
      handler |-> "set_school_phone", key |-> "school_phone", next |-> SCHOOL_COUNTRY],
     [name_state |-> MASTER_NAME, name_handler |-> "set_master_name",
      name_key |-> "master_name", state |-> MASTER_PHONE,
      handler |-> "set_master_phone", key |-> "master_phone", next |-> MASTER_COUNTRY],
     [name_state |-> PARTNER_DETAILS_NAME, name_handler |-> "set_partner_details_name",
      name_key |-> "partner_name", state |-> PARTNER_DETAILS_PHONE,
      handler |-> "set_partner_details_phone", key |-> "partner_phone",
      next |-> PARTNER_DETAILS_COUNTRY]}

\* user_data when the name step of flow f is reached.
BeforeName(f) ==
    IF f.name_state = PARTNER_DETAILS_NAME
    THEN Put(EmptyDict, "partner_type", GiveCallback(partner_give_options.en[1]))
    ELSE EmptyDict

\* User u is at the phone step of flow f, having just sent tPhone as name.
AtPhoneStep(u, f) ==
    /\ conv = [v \in Users |-> IF v = u THEN f.state ELSE NoConv]
    /\ user_data = [v \in Users |->
                       IF v = u THEN Put(BeforeName(f), f.name_key, tPhone) ELSE EmptyDict]
    /\ user_languages = [v \in Users |-> IF v = u THEN <<"en">> ELSE Unset]
    /\ sheets = [n \in SheetNames |-> <<>>]
    /\ flows = 1
    /\ last = [user |-> u, input |-> TextUpdate(tPhone), handler |-> f.name_handler,
               from |-> f.name_state, ud |-> BeforeName(f), before |-> sheets,
               sent |-> <<Msg(<<"prompt_phone">>, <<"en">>, <<>>)>>, calls |-> <<>>]
    /\ fresh = [v \in Users |->
                   IF v = u THEN DOMAIN Put(BeforeName(f), f.name_key, tPhone) ELSE {}]
    /\ cast = {u}

PhoneInit ==
    \E u \in Users : \E f \in PhoneFlows :
        /\ AtPhoneStep(u, f)
        /\ stray = CallbackUpdate(CONTACT_ADMIN)
        /\ queue = <<>>
        /\ tasks = <<>>

PhoneNext ==
    \/ \E u \in cast :
           /\ conv[u] = MEMBER_PHONE
           /\ \E t \in PhoneTexts : SetMemberPhone(u, TextUpdate(t))
    \/ \E u \in cast :
           /\ conv[u] = SCHOOL_PHONE
           /\ \E t \in PhoneTexts : SetSchoolPhone(u, TextUpdate(t))
    \/ \E u \in cast :
           /\ conv[u] = MASTER_PHONE
           /\ \E t \in PhoneTexts : SetMasterPhone(u, TextUpdate(t))
    \/ \E u \in cast :
           /\ conv[u] = PARTNER_DETAILS_PHONE
           /\ \E t \in PhoneTexts : SetPartnerDetailsPhone(u, TextUpdate(t))

PhoneSpec == PhoneInit /\ [][PhoneNext]_vars

--------------------------------------------------------------------------
(* The country step and the amount step of the partner flow on their own, *)
(* with a range of country texts and every short text over AmountAlphabet *)
(* as input.  A behaviour starts where Spec arrives when a participant    *)
(* who chose a language enters the partner flow, chooses the first give   *)
(* option and sends tPhone as the name and as the phone number.           *)

\* User u, whose language is lang, is at the country step of the partner
\* flow.
AtCountryStep(u, lang) ==
    LET type == GiveCallback(partner_give_options[lang[1]][1])
        named == Put(Put(EmptyDict, "partner_type", type), "partner_name", tPhone)
        ud == Put(named, "partner_phone", tPhone)
    IN /\ conv = [v \in Users |-> IF v = u THEN PARTNER_DETAILS_COUNTRY ELSE NoConv]
       /\ user_data = [v \in Users |-> IF v = u THEN ud ELSE EmptyDict]
       /\ user_languages = [v \in Users |-> IF v = u THEN lang ELSE Unset]
       /\ sheets = [n \in SheetNames |-> <<>>]
       /\ flows = 1
       /\ last = [user |-> u, input |-> TextUpdate(tPhone),
                  handler |-> "set_partner_details_phone",
                  from |-> PARTNER_DETAILS_PHONE, ud |-> named, before |-> sheets,
                  sent |-> <<Msg(<<"prompt_country">>, lang, <<>>)>>, calls |-> <<>>]
       /\ fresh = [v \in Users |-> IF v = u THEN DOMAIN ud ELSE {}]
       /\ cast = {u}

PaymentInit ==
    \E u \in Users : \E lang \in LANGUAGES :
        /\ AtCountryStep(u, lang)
        /\ stray = CallbackUpdate(CONTACT_ADMIN)
        /\ queue = <<>>
        /\ tasks = <<>>

PaymentNext ==
    \/ \E u \in cast :
           /\ conv[u] = PARTNER_DETAILS_COUNTRY
           /\ \E t \in CountryTexts : SetPartnerDetailsCountry(u, TextUpdate(t))
    \/ \E u \in cast :
           /\ conv[u] = PARTNER_AMOUNT
           /\ \E t \in AmountTexts : SetPartnerAmount(u, TextUpdate(t))

PaymentSpec == PaymentInit /\ [][PaymentNext]_vars

--------------------------------------------------------------------------
(* The five flows from their name step to the commit, with texts that    *)
(* have spaces around them or are blank as names and as the prayer text, *)
(* and the texts of CountryTexts as countries.  A behaviour starts where *)
(* Spec arrives when a participant who chose a language selects a flow   *)
(* in the main menu (in the partner flow: and chooses the first give     *)
(* option).                                                              *)

\* The flows: the state of the name step, the handler that led to it, the
\* state that handler ran in, the payload it ran for and the messages it
\* sent, and the fields stored when the name step is reached.
TextFlows(lang) ==
    LET say(keys) == Msg(keys, lang, <<>>)
        menu(i, state, outs) ==
            [state |-> state, handler |-> "handle_menu", from |-> MENU,
             data |-> buttons[lang[1]][i], sent |-> outs, ud |-> EmptyDict]
        type == GiveCallback(partner_give_options[lang[1]][1])
    IN {menu(1, MEMBER_NAME, <<say(<<"prompt_name">>)>>),
        menu(2, PRAYER_NAME, <<say(<<"prompt_name">>)>>),
        menu(3, SCHOOL_NAME, <<say(<<"scripture_discipleship">>), say(<<"prompt_name">>)>>),
        menu(4, MASTER_NAME, <<say(<<"scripture_masterclass">>), say(<<"prompt_name">>)>>),
        [state |-> PARTNER_DETAILS_NAME, handler |-> "handle_partner_give_selection",
         from |-> PARTNER_GIVE_OPTIONS, data |-> type,
         sent |-> <<say(<<"prompt_name">>)>>, ud |-> Put(EmptyDict, "partner_type", type)]}

\* User u, whose language is lang, is at the name step of flow f.
AtNameStep(u, lang, f) ==
    /\ conv = [v \in Users |-> IF v = u THEN f.state ELSE NoConv]
    /\ user_data = [v \in Users |-> IF v = u THEN f.ud ELSE EmptyDict]
    /\ user_languages = [v \in Users |-> IF v = u THEN lang ELSE Unset]
    /\ sheets = [n \in SheetNames |-> <<>>]
    /\ flows = 1
    /\ last = [user |-> u, input |-> CallbackUpdate(f.data), handler |-> f.handler,
               from |-> f.from, ud |-> EmptyDict, before |-> sheets,
               sent |-> f.sent, calls |-> <<>>]
    /\ fresh = [v \in Users |-> IF v = u THEN DOMAIN f.ud ELSE {}]
    /\ cast = {u}

TextInit ==
    \E u \in Users : \E lang \in LANGUAGES : \E f \in TextFlows(lang) :
        /\ AtNameStep(u, lang, f)
        /\ stray = CallbackUpdate(CONTACT_ADMIN)
        /\ queue = <<>>
        /\ tasks = <<>>

TextNext ==
    \/ \E u \in cast :
           /\ conv[u] = MEMBER_NAME
           /\ \E t \in NameTexts : SetMemberName(u, TextUpdate(t))
    \/ \E u \in cast :
           /\ conv[u] = MEMBER_PHONE
           /\ SetMemberPhone(u, TextUpdate(tPhone))
    \/ \E u \in cast :
           /\ conv[u] = MEMBER_COUNTRY
           /\ \E t \in CountryTexts : \E store \in StoreOutcomes, ts \in Timestamps :
                  SetMemberCountry(u, TextUpdate(t), store, ts)
    \/ \E u \in cast :
           /\ conv[u] = PRAYER_NAME
           /\ \E t \in NameTexts : SetPrayerName(u, TextUpdate(t))
    \/ \E u \in cast :
           /\ conv[u] = PRAYER_INPUT
           /\ \E t \in NameTexts : \E store \in StoreOutcomes, ts \in Timestamps :
                  SavePrayerRequest(u, TextUpdate(t), store, ts)
    \/ \E u \in cast :
           /\ conv[u] = SCHOOL_NAME
           /\ \E t \in NameTexts : SetSchoolName(u, TextUpdate(t))
    \/ \E u \in cast :
           /\ conv[u] = SCHOOL_PHONE
           /\ SetSchoolPhone(u, TextUpdate(tPhone))
    \/ \E u \in cast :
           /\ conv[u] = SCHOOL_COUNTRY
           /\ \E t \in CountryTexts : \E store \in StoreOutcomes, ts \in Timestamps :
                  SetSchoolCountry(u, TextUpdate(t), store, ts)
    \/ \E u \in cast :
           /\ conv[u] = MASTER_NAME
           /\ \E t \in NameTexts : SetMasterName(u, TextUpdate(t))
    \/ \E u \in cast :
           /\ conv[u] = MASTER_PHONE
           /\ SetMasterPhone(u, TextUpdate(tPhone))
    \/ \E u \in cast :
           /\ conv[u] = MASTER_COUNTRY
           /\ \E t \in CountryTexts : \E store \in StoreOutcomes, ts \in Timestamps :
                  SetMasterCountry(u, TextUpdate(t), store, ts)
    \/ \E u \in cast :
           /\ conv[u] = PARTNER_DETAILS_NAME
           /\ \E t \in NameTexts : SetPartnerDetailsName(u, TextUpdate(t))
    \/ \E u \in cast :
           /\ conv[u] = PARTNER_DETAILS_PHONE
           /\ SetPartnerDetailsPhone(u, TextUpdate(tPhone))
    \/ \E u \in cast :
           /\ conv[u] = PARTNER_DETAILS_COUNTRY
           /\ \E t \in CountryTexts : SetPartnerDetailsCountry(u, TextUpdate(t))
    \/ \E u \in cast :
           /\ conv[u] = PARTNER_AMOUNT
           /\ SetPartnerAmount(u, TextUpdate(tPhone))
    \/ \E u \in cast :
           /\ conv[u] = PARTNER_PAYMENT_PROOF
           /\ \E store \in StoreOutcomes, ts \in Timestamps :
                  SetPartnerPaymentProof(u, PhotoUpdate(PhotoSizes), store, ts)

TextSpec == TextInit /\ [][TextNext]_vars

--------------------------------------------------------------------------
(* Two participants at once.  Both users send updates, in any order: each *)
(* one starts, picks English or Spanish and goes through the member and   *)
(* the prayer flow while the other does the same.                         *)

\* The taps of the two participants: two languages, the member and the
\* prayer button of each.
PairTaps ==
    {<<"en">>, <<"es">>} \cup {buttons[l][k] : l \in {"en", "es"}, k \in 1..2}

\* The updates user u may send now in PairSpec.
PairInputs(u) ==
    {TextUpdate(tStart), TextUpdate(tPhone), stray}
    \cup {CallbackUpdate(d) : d \in Offered(conv[u], get_lang(u)) \cap PairTaps}

PairInit ==
    /\ conv = [u \in Users |-> NoConv]
    /\ user_data = [u \in Users |-> EmptyDict]
    /\ user_languages = [u \in Users |-> Unset]
    /\ sheets = [n \in SheetNames |-> <<>>]
    /\ flows = 0
    /\ last = [user |-> "nobody", input |-> NoUpdate, handler |-> "none",
               from |-> NoConv, ud |-> EmptyDict, before |-> sheets,
               sent |-> <<>>, calls |-> <<>>]
    /\ fresh = [u \in Users |-> {}]
    /\ cast = Users
    /\ stray = CallbackUpdate(CONTACT_ADMIN)
    /\ queue = <<>>
    /\ tasks = <<>>

PairNext ==
    \/ \E u \in cast :
           \E upd \in PairInputs(u) : \E daily \in DailyLookups :
                  Start(u, upd, daily)
    \/ \E u \in cast :
           /\ conv[u] = LANG_SELECT
           /\ \E upd \in PairInputs(u) : LanguageSelected(u, upd)
    \/ \E u \in cast :
           /\ conv[u] = MENU
           /\ \E upd \in PairInputs(u) : \E store \in StoreOutcomes :
                  HandleMenu(u, upd, store)
    \/ \E u \in cast :
           /\ conv[u] = MEMBER_NAME
           /\ \E upd \in PairInputs(u) : SetMemberName(u, upd)
    \/ \E u \in cast :
           /\ conv[u] = MEMBER_PHONE
           /\ \E upd \in PairInputs(u) : SetMemberPhone(u, upd)
    \/ \E u \in cast :
           /\ conv[u] = MEMBER_COUNTRY
           /\ \E upd \in PairInputs(u) : \E store \in StoreOutcomes, ts \in Timestamps :
                  SetMemberCountry(u, upd, store, ts)
    \/ \E u \in cast :
           /\ conv[u] = PRAYER_NAME
           /\ \E upd \in PairInputs(u) : SetPrayerName(u, upd)
    \/ \E u \in cast :
           /\ conv[u] = PRAYER_INPUT
           /\ \E upd \in PairInputs(u) : \E store \in StoreOutcomes, ts \in Timestamps :
                  SavePrayerRequest(u, upd, store, ts)
    \/ \E u \in cast :
           \E upd \in PairInputs(u) : Dropped(u, upd)

PairSpec == PairInit /\ [][PairNext]_vars

--------------------------------------------------------------------------
(* The update queue.  The updates of a participant arrive in              *)
(* Application.update_queue while earlier ones are being handled; the     *)
(* update fetcher takes them from it, oldest first, and a handler         *)
(* callback runs in steps, giving up control at each `await` of a reply.  *)
(* A behaviour is one pass through the member flow, from the name step    *)
(* on, with texts as updates: after the commit the texts reach start().   *)

\* The concurrent_updates mode set on: a task per update.
concurrent_updates_on == TRUE

\* ApplicationBuilder().token(BOT_TOKEN).build(): concurrent_updates is
\* left at its default, the update fetcher awaits the processing of an
\* update before it takes the next one.
concurrent_updates == FALSE

\* The texts that arrive in QueueSpec: a name, a phone number, a country.
QueueTexts == {tGrace, tPhone, tGhana}

\* The handlers that end with save_to_sheet.
EndsWithSave(h) == h = "set_member_country"

\* A handler callback begun for the update at the head of the queue: what
\* it found and what it is going to do, with the replies not yet sent.
Callback(h, r) ==
    [user |-> Head(queue).user, upd |-> Head(queue).upd, handler |-> h,
     from |-> conv[Head(queue).user], ud |-> user_data[Head(queue).user],
     before |-> sheets, result |-> r, todo |-> r.outs]

\* An update of user u is received.
Arrive(u, upd) ==
    /\ Len(queue) < MaxQueue
    /\ queue' = Append(queue, [user |-> u, upd |-> upd])
    /\ UNCHANGED <<conv, user_data, user_languages, sheets, flows, last, fresh, cast,
                   stray, tasks>>

\* The update fetcher takes the oldest update, ConversationHandler finds
\* handler h for it in the state the conversation is in, and the callback
\* runs up to its first `await` of a reply: ask_input has stored the text,
\* a commit has stored it and appended the row.
Begin(h, r) ==
    /\ queue # <<>>
    /\ concurrent_updates \/ tasks = <<>>
    /\ Runs(Head(queue).user, Head(queue).upd, h)
    /\ queue' = Tail(queue)
    /\ tasks' = Append(tasks, Callback(h, r))
    /\ user_data' = [user_data EXCEPT ![Head(queue).user] =
                        IF EndsWithSave(h) THEN Put(@, "member_country", Head(queue).upd.text)
                        ELSE r.ud]
    /\ sheets' = ApplyCalls(sheets, r.calls)
    /\ UNCHANGED <<conv, user_languages, flows, last, fresh, cast, stray>>

FetchStart(daily) ==
    /\ queue # <<>>
    /\ Begin("start", start(Head(queue).user, daily))

FetchMemberName ==
    /\ queue # <<>>
    /\ Begin("set_member_name", set_member_name(Head(queue).user, Head(queue).upd))

FetchMemberPhone ==
    /\ queue # <<>>
    /\ Begin("set_member_phone", set_member_phone(Head(queue).user, Head(queue).upd))

FetchMemberCountry(store, ts) ==
    /\ queue # <<>>
    /\ Begin("set_member_country",
             set_member_country(Head(queue).user, Head(queue).upd, store, ts))

\* An awaited reply of callback i is sent and the callback runs on to its
\* next `await`.
Reply(i) ==
    /\ tasks[i].todo # <<>>
    /\ tasks' = [tasks EXCEPT ![i].todo = Tail(@)]
    /\ UNCHANGED <<conv, user_data, user_languages, sheets, flows, last, fresh, cast,
                   stray, queue>>

\* Callback i returns after its last reply: a commit clears user_data, and
\* ConversationHandler stores the state returned.
Return(i) ==
    LET t == tasks[i]
    IN /\ t.todo = <<>>
       /\ tasks' = [j \in 1..(Len(tasks) - 1) |-> IF j < i THEN tasks[j] ELSE tasks[j + 1]]
       /\ conv' = [conv EXCEPT ![t.user] = t.result.next]
       /\ user_data' = IF EndsWithSave(t.handler)
                       THEN [user_data EXCEPT ![t.user] = t.result.ud]
                       ELSE user_data
       /\ last' = [user |-> t.user,
                   input |-> IF t.handler = "start" THEN NoUpdate ELSE t.upd,
                   handler |-> t.handler, from |-> t.from, ud |-> t.ud,
                   before |-> t.before, sent |-> t.result.outs, calls |-> t.result.calls]
       /\ fresh' = [fresh EXCEPT ![t.user] =
                       (IF t.from \in {NoConv, LANG_SELECT, MENU} THEN {} ELSE @)
                           \cup t.result.wrote]
       /\ UNCHANGED <<user_languages, sheets, flows, cast, stray, queue>>

QueueInit ==
    \E u \in Users : \E lang \in LANGUAGES : \E f \in TextFlows(lang) :
        /\ f.state = MEMBER_NAME
        /\ AtNameStep(u, lang, f)
        /\ stray = CallbackUpdate(CONTACT_ADMIN)
        /\ queue = <<>>
        /\ tasks = <<>>

QueueNext ==
    \/ \E u \in cast : \E t \in QueueTexts : Arrive(u, TextUpdate(t))
    \/ \E daily \in DailyLookups : FetchStart(daily)
    \/ FetchMemberName
    \/ FetchMemberPhone
    \/ \E store \in StoreOutcomes, ts \in Timestamps : FetchMemberCountry(store, ts)
    \/ \E i \in DOMAIN tasks : Reply(i)
    \/ \E i \in DOMAIN tasks : Return(i)

QueueSpec == QueueInit /\ [][QueueNext]_vars

--------------------------------------------------------------------------
(* The properties. *)

\* Worksheets `sh` with `row` appended to worksheet `name`.
WithRow(sh, name, row) == [sh EXCEPT ![name] = Append(@, row)]

\* The two messages a commit ends with: `key` in the user's language, then
\* the main menu.
ThenMenu(u, key) == <<Msg(<<key>>, get_lang(u), <<>>), MenuMsg(get_lang(u))>>

\* The updates of the model that are texts and no commands.
PlainTextUpdates == {upd \in Updates : FilterPlainText(upd)}

\* The latest update was handled by handler h.
Ran(h) == last.handler = h

\* The latest update made an append that succeeded.
Appended == last.calls # <<>> /\ last.calls[1].op = "append_row" /\ last.calls[1].ok

\* The updates of the prayer scenario reach its handlers: a tap on the
\* Prayer Request button in the main menu, a text that is no command in
\* the two states of the flow.
PrayerRouting ==
    /\ \A l \in LANGUAGES :
          DispatchTable[MENU][CallbackUpdate(Buttons(l)[2])] = "handle_menu"
    /\ \A upd \in PlainTextUpdates :
          /\ DispatchTable[PRAYER_NAME][upd] = "set_prayer_name"
          /\ DispatchTable[PRAYER_INPUT][upd] = "save_prayer_request"

\* Claim C1.  From the main menu, selecting Prayer Request, then sending a
\* text n, then a text t (neither a command), the record store succeeding:
\* the selection leads to the state that asks for the name and appends
\* nothing; n is stored as the name and t is asked for; t appends exactly
\* one row <<participant id, n, t, timestamp>> to Prayers and nothing
\* anywhere else, the prayer thank-you and then the menu are sent, and the
\* session is in the menu with no fields.
C1_PrayerScenario ==
    /\ PrayerRouting
    /\ (Ran("handle_menu") /\ last.from = MENU
            /\ last.input = CallbackUpdate(Buttons(get_lang(last.user))[2]))
          => /\ conv[last.user] = PRAYER_NAME
             /\ user_data[last.user] = last.ud
             /\ sheets = last.before
    /\ Ran("set_prayer_name")
          => /\ last.from = PRAYER_NAME
             /\ conv[last.user] = PRAYER_INPUT
             /\ user_data[last.user] = Put(last.ud, "prayer_name", last.input.text)
             /\ sheets = last.before
    /\ \A u \in Users : conv[u] = PRAYER_INPUT => "prayer_name" \in DOMAIN user_data[u]
    /\ (Ran("save_prayer_request") /\ last.calls[1].ok)
          => /\ last.from = PRAYER_INPUT
             /\ \E ts \in Timestamps :
                   sheets = WithRow(last.before, "Prayers",
                                    <<Str(last.user), last.ud["prayer_name"],
                                      last.input.text, ts>>)
             /\ last.sent = ThenMenu(last.user, "prayer_thankyou")
             /\ conv[last.user] = MENU
             /\ user_data[last.user] = EmptyDict

\* A prayer request was just committed: its row, with a name that differs
\* from the prayer text, is the last of Prayers and the session is in the
\* menu with no fields.
C1_Witness ==
    /\ Ran("save_prayer_request")
    /\ Appended
    /\ conv[last.user] = MENU
    /\ user_data[last.user] = EmptyDict
    /\ last.ud["prayer_name"] = tGrace
    /\ last.input.text = tPhone
    /\ sheets["Prayers"][Len(sheets["Prayers"])][2] = tGrace

\* The commit points: the handler that commits a flow, the state it is
\* registered for, the worksheet of the flow, the keys of user_data the
\* flow declares, in the order of the row, and the flow's success message.
Commits ==
    {[handler |-> "set_member_country", state |-> MEMBER_COUNTRY, sheet |-> "Members",
      keys |-> <<"member_name", "member_phone", "member_country">>,
      success |-> "member_signup_success"],
     [handler |-> "save_prayer_request", state |-> PRAYER_INPUT, sheet |-> "Prayers",
      keys |-> <<"prayer_name">>, success |-> "prayer_thankyou"],
     [handler |-> "set_school_country", state |-> SCHOOL_COUNTRY,
      sheet |-> "School of Discipleship",
      keys |-> <<"school_name", "school_phone", "school_country">>,
      success |-> "school_signup_success"],
     [handler |-> "set_master_country", state |-> MASTER_COUNTRY, sheet |-> "Master Class",
      keys |-> <<"master_name", "master_phone", "master_country">>,
      success |-> "masterclass_signup_success"],
     [handler |-> "set_partner_payment_proof", state |-> PARTNER_PAYMENT_PROOF,
      sheet |-> "Partners",
      keys |-> <<"partner_type", "partner_name", "partner_phone", "partner_country",
                 "partner_amount", "payment_proof_file_id">>,
      success |-> "partner_thankyou"]}

CommitHandlers == {c.handler : c \in Commits}

\* What an update supplies to the handler that commits: its text, the
\* largest size of its photo, or its document.
Supplied(upd) ==
    CASE upd.kind = "text" -> upd.text
      [] upd.kind = "photo" -> upd.photo[Len(upd.photo)]
      [] upd.kind = "document" -> upd.document
      [] OTHER -> <<>>

\* The row the latest update appended.
NewRow == last.calls[1].row

\* Claim C2.  Flow isolation: every value of a committed row other than
\* the participant id and the timestamp was supplied during the traversal
\* that ended in the commit: it is what the committing update supplies, or
\* the value of a declared key that was assigned since the main menu was
\* last left.  No value collected under an abandoned flow is in the row.
C2_FlowIsolation ==
    \A c \in Commits :
        (Ran(c.handler) /\ Appended)
          => /\ sheets[c.sheet] = Append(last.before[c.sheet], NewRow)
             /\ \A p \in 2..(Len(NewRow) - 1) :
                   \/ /\ p = Len(NewRow) - 1
                      /\ NewRow[p] = Supplied(last.input)
                   \/ /\ p - 1 \in DOMAIN c.keys
                      /\ c.keys[p - 1] \in fresh[last.user]
                      /\ c.keys[p - 1] \in DOMAIN last.ud
                      /\ NewRow[p] = last.ud[c.keys[p - 1]]

\* A flow was just committed by a participant whose user_data still held
\* a key of another flow, abandoned by a restart.
C2_Witness ==
    \E c \in Commits :
        /\ Ran(c.handler)
        /\ Appended
        /\ (DOMAIN last.ud) \ Range(c.keys) # {}
        /\ Len(NewRow) = Len(c.keys) + IF c.sheet = "Prayers" THEN 3 ELSE 2

\* Claim C3.  No partial commit: when the append of a commit point fails,
\* whatever the worksheet, no row is added to any worksheet, the generic
\* error message is sent in place of the success message, then the menu,
\* the fields are cleared and the state is the main menu.
C3_NoPartialCommit ==
    \A c \in Commits :
        (Ran(c.handler) /\ ~Appended)
          => /\ sheets = last.before
             /\ last.sent = ThenMenu(last.user, "error_general")
             /\ user_data[last.user] = EmptyDict
             /\ conv[last.user] = MENU

\* The append of a school signup just failed, with fields collected.
C3_Witness ==
    /\ Ran("set_school_country")
    /\ ~last.calls[1].ok
    /\ "school_phone" \in DOMAIN last.ud
    /\ user_data[last.user] = EmptyDict
    /\ conv[last.user] = MENU

\* Claim C4.  On a successful commit the flow's own success message is
\* sent, then the menu, and the session is in the main menu with no
\* fields.
C4_SuccessMessage ==
    \A c \in Commits :
        (Ran(c.handler) /\ Appended)
          => /\ last.sent = ThenMenu(last.user, c.success)
             /\ conv[last.user] = MENU
             /\ user_data[last.user] = EmptyDict

\* A master class signup was just committed.
C4_Witness ==
    /\ Ran("set_master_country")
    /\ Appended
    /\ last.sent[1].text = <<"masterclass_signup_success">>
    /\ last.sent[2] = MenuMsg(get_lang(last.user))
    /\ conv[last.user] = MENU

\* seq `a` is a prefix of seq `b`.
IsPrefix(a, b) == Len(a) <= Len(b) /\ \A i \in 1..Len(a) : a[i] = b[i]

\* The updates a commit point accepts reach the handler that commits: a
\* photo or a document at the payment proof, a text that is no command at
\* the others.
CommitRouting ==
    \A c \in Commits : \A upd \in Updates :
        (IF c.state = PARTNER_PAYMENT_PROOF THEN FilterMedia(upd)
                                            ELSE FilterPlainText(upd))
           => DispatchTable[c.state][upd] = c.handler

\* Claim C5.  The record store grows only, and only at commit points: an
\* update accepted at a commit point makes exactly one append call, on
\* the worksheet of the flow, and the worksheets change by that row when
\* the call succeeds and not at all when it fails; an update handled by
\* any other handler, or dropped, appends nothing; no row already there
\* is changed or removed.
C5_AppendOnly ==
    /\ \A n \in SheetNames : IsPrefix(last.before[n], sheets[n])
    /\ CommitRouting
    /\ \A c \in Commits :
          Ran(c.handler)
                => /\ last.from = c.state
                   /\ Len(last.calls) = 1
                   /\ last.calls[1].op = "append_row"
                   /\ last.calls[1].sheet = c.sheet
                   /\ sheets = IF last.calls[1].ok
                                   THEN WithRow(last.before, c.sheet, NewRow)
                                   ELSE last.before
    /\ last.handler \notin CommitHandlers
          => /\ sheets = last.before
             /\ \A i \in DOMAIN last.calls : last.calls[i].op # "append_row"

\* A commit has just appended a row to a record store that already held
\* one.
C5_Witness ==
    /\ last.handler \in CommitHandlers
    /\ Appended
    /\ \E n \in SheetNames : last.before[n] # <<>>
    /\ \E n \in SheetNames : Len(sheets[n]) = Len(last.before[n]) + 1

\* The timestamp of the row the latest update appended.
RowTime == NewRow[Len(NewRow)]

DecimalDigits == {"0", "1", "2", "3", "4", "5", "6", "7", "8", "9"}

IsPlusDecimal(s) ==
    /\ Len(s) >= 2
    /\ s[1] = "+"
    /\ \A i \in 2..Len(s) : s[i] \in DecimalDigits

\* Every text of PhoneTexts sent in a phone state reaches the phone
\* handler of the state.
PhoneRouting ==
    \A f \in PhoneFlows : \A t \in PhoneTexts :
        DispatchTable[f.state][TextUpdate(t)] = f.handler

\* Claim C7.  In each of the four phone states a text that is not '+'
\* followed by one or more digits is answered with the invalid-input
\* notice and the phone prompt, the state stays, no phone is stored and
\* the fields stored before stay as they were.
C7_InvalidPhoneRejected ==
    \A f \in PhoneFlows :
        /\ PhoneRouting
        /\ (Ran(f.handler) /\ ~IsPlusDecimal(last.input.text))
              => /\ last.sent = <<Msg(<<"invalid_input", "prompt_phone">>,
                                      get_lang(last.user), <<>>)>>
                 /\ conv[last.user] = f.state
                 /\ user_data[last.user] = last.ud

\* Claim C8.  Every text that is '+' followed by one or more decimal
\* digits is accepted by the phone step of each flow: it is stored
\* unchanged under the flow's phone key, the fields stored before stay,
\* the country prompt is sent and the flow is in its country state.
C8_ValidPhoneStored ==
    \A f \in PhoneFlows :
        /\ PhoneRouting
        /\ (Ran(f.handler) /\ IsPlusDecimal(last.input.text))
              => /\ last.from = f.state
                 /\ last.sent = <<Msg(<<"prompt_country">>, get_lang(last.user), <<>>)>>
                 /\ conv[last.user] = f.next
                 /\ user_data[last.user] = Put(last.ud, f.key, last.input.text)

\* The phone step of the member flow has just stored "+77".
C8_Witness ==
    /\ Ran("set_member_phone")
    /\ last.input.text = <<"+", "7", "7">>
    /\ conv[last.user] = MEMBER_COUNTRY
    /\ user_data[last.user]["member_phone"] = <<"+", "7", "7">>

\* A restart event in `state`: the start command, or a text, photo or
\* document that no handler of the state accepts.
IsRestart(state, upd) ==
    \/ IsStartCommand(upd)
    \/ (FilterText(upd) \/ FilterMedia(upd)) /\ StateHandler(state, upd) = "none"

\* Every restart event reaches start(), and nothing else does.
RestartRouting ==
    \A state \in States : \A upd \in Updates :
        IsRestart(state, upd) <=> DispatchTable[state][upd] = "start"

\* Claim C9.  After any restart event the fields of the session are empty
\* and its state is the language selection.
C9_RestartResets ==
    /\ RestartRouting
    /\ (Ran("start") /\ last.from # NoConv)
          => /\ conv[last.user] = LANG_SELECT
             /\ user_data[last.user] = EmptyDict

\* The data-collection states of each flow and the keys the flow declares.
FlowsOf ==
    {[states |-> {MEMBER_NAME, MEMBER_PHONE, MEMBER_COUNTRY},
      keys |-> {"member_name", "member_phone", "member_country"}],
     [states |-> {PRAYER_NAME, PRAYER_INPUT},
      keys |-> {"prayer_name"}],
     [states |-> {SCHOOL_NAME, SCHOOL_PHONE, SCHOOL_COUNTRY},
      keys |-> {"school_name", "school_phone", "school_country"}],
     [states |-> {MASTER_NAME, MASTER_PHONE, MASTER_COUNTRY},
      keys |-> {"master_name", "master_phone", "master_country"}],
     [states |-> {PARTNER_MAIN_OPTIONS, PARTNER_GIVE_OPTIONS, PARTNER_PARTNER_OPTIONS,
                  PARTNER_DETAILS_NAME, PARTNER_DETAILS_PHONE, PARTNER_DETAILS_COUNTRY,
                  PARTNER_AMOUNT, PARTNER_PAYMENT_PROOF},
      keys |-> {"partner_type", "partner_name", "partner_phone", "partner_country",
                "partner_amount", "payment_proof_file_id"}]}

\* Claim C10.  While a session is in a data-collection state of a flow,
\* the keys of its fields are keys the flow declares; so right after a
\* menu selection has entered a flow the fields hold no key of a flow
\* started before.
C10_FieldsOfActiveFlow ==
    \A u \in Users : \A f \in FlowsOf :
        conv[u] \in f.states => DOMAIN user_data[u] \subseteq f.keys

--------------------------------------------------------------------------
(* Language, menu and navigation. *)

\* Claim C11.  In every reachable state the language of each participant
\* is unset or one of the supported codes: no selection received in the
\* language selection stores another value.
C11_LanguageSupported ==
    \A u \in Users : user_languages[u] = Unset \/ user_languages[u] \in LANGUAGES

\* The latest update was a tap on button i of the main menu in the
\* language of the participant, handled by handle_menu.
MenuTap(i) ==
    /\ Ran("handle_menu")
    /\ last.input.data = Buttons(get_lang(last.user))[i]

\* The latest update made the bot send statistics, or read for them the
\* records of one of the five worksheets the statistics count.
StatsSent == \E i \in 1..Len(last.sent) : last.sent[i].text[1] = "stats"
StatsRead ==
    \E i \in 1..Len(last.calls) :
        last.calls[i].op = "get_all_records" /\ last.calls[i].sheet \in SheetNames

\* In the main menu every tap reaches handle_menu.
MenuRouting ==
    \A upd \in Updates : IsCallback(upd) => DispatchTable[MENU][upd] = "handle_menu"

\* Claim C12.  Statistics are sent, and worksheets read for them, only on
\* an Admin Dashboard selection handled in the main menu for the operator;
\* on the same selection from anyone else the only reply is "access
\* denied", nothing is read, the state stays the main menu and the fields
\* are unchanged.
C12_AdminOnly ==
    /\ MenuRouting
    /\ (StatsSent \/ StatsRead)
          => /\ MenuTap(6)
             /\ last.from = MENU
             /\ last.user = ADMIN_ID
    /\ (MenuTap(6) /\ last.user # ADMIN_ID)
          => /\ last.sent = <<Msg(<<"access_denied">>, get_lang(last.user), <<>>)>>
             /\ last.calls = <<>>
             /\ sheets = last.before
             /\ conv[last.user] = MENU
             /\ user_data[last.user] = last.ud

\* The operator selects the Admin Dashboard and is sent the statistics.
C12_Witness ==
    /\ MenuTap(6)
    /\ last.user = ADMIN_ID
    /\ StatsSent
    /\ Len(last.calls) = 5
    /\ conv[last.user] = MENU

--------------------------------------------------------------------------
(* The payment steps of the partner flow. *)

\* "South Africa" and "Ghana" as normalized country values.
SouthAfricaTitle == <<"S","o","u","t","h"," ","A","f","r","i","c","a">>
GhanaTitle == <<"G","h","a","n","a">>

\* In the country step of the partner flow every text that is no command
\* reaches set_partner_details_country.
CountryRouting ==
    \A upd \in PlainTextUpdates :
        DispatchTable[PARTNER_DETAILS_COUNTRY][upd] = "set_partner_details_country"

\* Claim C13.  On a country accepted in the country step of the partner
\* flow: when the normalized value is "South Africa" the domestic payment
\* instructions are sent without the Contact Admin button; when it is
\* "Ghana", or any value that does not name South Africa, the
\* international instructions are sent with the Contact Admin button; in
\* both cases the amount prompt follows and the state is the amount step.
C13_CountryBranching ==
    /\ CountryRouting
    /\ Ran("set_partner_details_country")
          => LET country == user_data[last.user]["partner_country"]
                 lang == get_lang(last.user)
                 instructions == last.sent[1]
             IN /\ last.input.text \in {tSouthAfricaLower, tSouthAfricaUpper}
                      => country = SouthAfricaTitle
                /\ last.input.text \in {tGhana, tGhanaLower} => country = GhanaTitle
                /\ Len(last.sent) = 2
                /\ last.sent[2] = Msg(<<"prompt_amount">>, lang, <<>>)
                /\ conv[last.user] = PARTNER_AMOUNT
                /\ country = SouthAfricaTitle
                      => /\ instructions.text = <<"payment_sa">>
                         /\ instructions.lang = lang
                         /\ CONTACT_ADMIN \notin Range(instructions.kb)
                /\ (country = GhanaTitle \/ ~Contains(LowerStr(country), SouthAfrica))
                      => /\ instructions.text = <<"payment_international">>
                         /\ instructions.lang = lang
                         /\ CONTACT_ADMIN \in Range(instructions.kb)

\* " SOUTH AFRICA " was sent as the country: it is stored as "South Africa"
\* and the domestic instructions were sent.
C13_Witness ==
    /\ Ran("set_partner_details_country")
    /\ last.input.text = tSouthAfricaUpper
    /\ user_data[last.user]["partner_country"] = SouthAfricaTitle
    /\ last.sent[1].text = <<"payment_sa">>
    /\ conv[last.user] = PARTNER_AMOUNT

\* The first state of the flow behind each of the first five buttons of
\* the main menu, and the prompt the state is entered with.
FlowEntries ==
    <<[state |-> MEMBER_NAME, prompt |-> <<"prompt_name">>, kb |-> <<>>],
      [state |-> PRAYER_NAME, prompt |-> <<"prompt_name">>, kb |-> <<>>],
      [state |-> SCHOOL_NAME, prompt |-> <<"prompt_name">>, kb |-> <<>>],
      [state |-> MASTER_NAME, prompt |-> <<"prompt_name">>, kb |-> <<>>],
      [state |-> PARTNER_MAIN_OPTIONS, prompt |-> <<"partner_main_options_prompt">>,
       kb |-> <<SHOW_GIVE_OPTIONS, SHOW_PARTNER_OPTIONS, BACK_TO_MENU>>]>>

\* Claim C14.  In the main menu a selection equal to the label of a flow
\* in the language of the session moves the session to the first state of
\* the flow and ends with the prompt of that state; a selection that is
\* none of the six labels nor the back-to-menu token is answered with
\* "unknown option" only, the state stays the main menu and the fields
\* are unchanged.
C14_MenuDispatch ==
    /\ MenuRouting
    /\ \A i \in 1..5 :
          MenuTap(i)
            => /\ conv[last.user] = FlowEntries[i].state
               /\ last.sent # <<>>
               /\ last.sent[Len(last.sent)] =
                     Msg(FlowEntries[i].prompt, get_lang(last.user), FlowEntries[i].kb)
    /\ (/\ Ran("handle_menu")
        /\ last.input.data \notin
              Range(buttons[get_lang(last.user)[1]]) \cup {BACK_TO_MENU})
          => /\ last.sent = <<Msg(<<"unknown_option">>, get_lang(last.user), <<>>)>>
             /\ conv[last.user] = MENU
             /\ user_data[last.user] = last.ud

\* The Give or Partner button was tapped in the main menu and the session
\* is in the partner category menu.
C14_Witness ==
    /\ MenuTap(5)
    /\ last.from = MENU
    /\ conv[last.user] = PARTNER_MAIN_OPTIONS
    /\ last.sent[1].text = <<"partner_main_options_prompt">>

--------------------------------------------------------------------------
(* The sub-menus of the partner flow. *)

\* The sub-menu states and the handler of each.
SubMenus ==
    {[state |-> PARTNER_MAIN_OPTIONS, handler |-> "handle_partner_main_selection"],
     [state |-> PARTNER_GIVE_OPTIONS, handler |-> "handle_partner_give_selection"],
     [state |-> PARTNER_PARTNER_OPTIONS, handler |-> "handle_partner_partner_selection"]}

\* In a sub-menu state every tap reaches the handler of the state.
SubMenuRouting ==
    \A s \in SubMenus : \A upd \in Updates :
        IsCallback(upd) => DispatchTable[s.state][upd] = s.handler

\* Claim C15.  In each of the three sub-menu states a selection whose
\* payload is neither an option the state offers nor its back option
\* leaves the state and the fields unchanged.
C15_UnofferedSelectionIgnored ==
    /\ SubMenuRouting
    /\ \A s \in SubMenus :
          (/\ Ran(s.handler)
           /\ last.from = s.state
           /\ last.input.data \notin Offered(s.state, get_lang(last.user)))
            => /\ conv[last.user] = s.state
               /\ user_data[last.user] = last.ud

\* The payloads of the six give and partner categories, as encoded for
\* each supported language.
Categories ==
    UNION {{GiveCallback(partner_give_options[l[1]][i]) :
                i \in 1..Len(partner_give_options[l[1]])}
           \cup {PartnerCallback(partner_partner_options[l[1]][i]) :
                    i \in 1..Len(partner_partner_options[l[1]])} : l \in LANGUAGES}

\* Claim C16.  In every record of the Partners worksheet the category,
\* the second value, is the payload of one of the six give and partner
\* categories; it is never a navigation token, a main-menu label or
\* another payload.
C16_CategoryOffered ==
    \A i \in 1..Len(sheets["Partners"]) : sheets["Partners"][i][2] \in Categories

\* The message that renders the Give and Partner options.
CategoryMenuMsg(lang) ==
    Msg(<<"partner_main_options_prompt">>, lang,
        <<SHOW_GIVE_OPTIONS, SHOW_PARTNER_OPTIONS, BACK_TO_MENU>>)

\* The latest update was the selection `data`, handled in `state`.
Selected(state, data) ==
    /\ last.from = state
    /\ last.input = CallbackUpdate(data)
    /\ last.handler # "none"

\* Claim C17.  A back-to-categories selection in the give sub-menu or in
\* the partner sub-menu moves the session to the partner category menu
\* and renders the Give and Partner options again; a back-to-menu
\* selection in the partner category menu moves the session to the main
\* menu and renders the main menu again; neither appends a record.
C17_BackNavigation ==
    /\ SubMenuRouting
    /\ \A state \in {PARTNER_GIVE_OPTIONS, PARTNER_PARTNER_OPTIONS} :
          Selected(state, BACK_TO_PARTNER_CATEGORIES)
            => /\ conv[last.user] = PARTNER_MAIN_OPTIONS
               /\ last.sent = <<CategoryMenuMsg(get_lang(last.user))>>
               /\ last.calls = <<>>
               /\ sheets = last.before
    /\ Selected(PARTNER_MAIN_OPTIONS, BACK_TO_MENU)
          => /\ conv[last.user] = MENU
             /\ last.sent = <<MenuMsg(get_lang(last.user))>>
             /\ last.calls = <<>>
             /\ sheets = last.before

\* The back option was tapped in the give sub-menu and the session is in
\* the partner category menu.
C17_Witness ==
    /\ Selected(PARTNER_GIVE_OPTIONS, BACK_TO_PARTNER_CATEGORIES)
    /\ Ran("handle_partner_give_selection")
    /\ conv[last.user] = PARTNER_MAIN_OPTIONS

--------------------------------------------------------------------------
(* Sessions. *)

\* Claim C18.  Whatever the first update of a participant is (the start
\* command, a text, a photo, a document or a tap), the participant then
\* has a session in the language selection and has been sent the language
\* prompt.
C18_LazySession ==
    (last.user \in Users /\ last.from = NoConv)
      => /\ conv[last.user] = LANG_SELECT
         /\ \E i \in 1..Len(last.sent) : last.sent[i].text = <<"lang_prompt">>

--------------------------------------------------------------------------
(* Validation in the payment steps. *)

\* The handlers that run in the payment-proof step for a text that is no
\* command, a message with neither a photo nor a document.
ProofTextHandlers ==
    {DispatchTable[PARTNER_PAYMENT_PROOF][upd] : upd \in PlainTextUpdates}

\* Claim C19.  In the payment-proof step a message that carries neither a
\* photo nor a document, such as a plain text, is answered with the
\* upload-proof notice; the state remains the payment-proof step and the
\* fields stored before are unchanged.
C19_MissingMediaReprompts ==
    (/\ last.from = PARTNER_PAYMENT_PROOF
     /\ last.handler \in ProofTextHandlers)
      => /\ conv[last.user] = PARTNER_PAYMENT_PROOF
         /\ user_data[last.user] = last.ud
         /\ last.sent = <<Msg(<<"upload_proof_error">>, get_lang(last.user), <<>>)>>

\* In the amount step every text that is no command reaches
\* set_partner_amount.
AmountRouting ==
    \A upd \in PlainTextUpdates :
        DispatchTable[PARTNER_AMOUNT][upd] = "set_partner_amount"

\* The text parses as a number: float() accepts it and the value is not
\* the not-a-number value.
ParsesAsNumber(text) == ParseFloat(text).ok /\ ParseFloat(text).kind # "nan"

\* The value the text parses to is greater than zero.
GreaterThanZero(text) ==
    LET f == ParseFloat(text)
    IN ~f.neg /\ (f.kind = "inf" \/ (f.kind = "num" /\ (f.milli > 0 \/ f.rest)))

\* Claim C20.  In the amount step a text that does not parse as a number,
\* or parses to a value of zero or less, is answered with the
\* invalid-input notice followed by the amount prompt, and the state and
\* the fields stay as they were; a text that parses to a value greater
\* than zero has its amount stored, is answered with the payment-proof
\* prompt and moves the session to the payment-proof step.
C20_AmountValidation ==
    /\ AmountRouting
    /\ Ran("set_partner_amount")
          => LET text == last.input.text
                 lang == get_lang(last.user)
             IN IF ParsesAsNumber(text) /\ GreaterThanZero(text)
                THEN /\ user_data[last.user] =
                           Put(last.ud, "partner_amount", Format2f(ParseFloat(text)))
                     /\ last.sent = <<Msg(<<"prompt_payment_proof">>, lang, <<>>)>>
                     /\ conv[last.user] = PARTNER_PAYMENT_PROOF
                ELSE /\ user_data[last.user] = last.ud
                     /\ last.sent = <<Msg(<<"invalid_input", "prompt_amount">>, lang, <<>>)>>
                     /\ conv[last.user] = PARTNER_AMOUNT

\* The text denotes a decimal number greater than zero.
IsPositiveDecimal(text) ==
    LET f == ParseFloat(text)
    IN f.ok /\ f.kind = "num" /\ ~f.neg /\ (f.milli > 0 \/ f.rest)

\* Claim C21.  Every amount stored in the fields of a session, as it is
\* after the formatting to two decimals, denotes a decimal number greater
\* than zero.
C21_StoredAmountPositive ==
    \A u \in Users :
        "partner_amount" \in DOMAIN user_data[u]
          => IsPositiveDecimal(user_data[u]["partner_amount"])

--------------------------------------------------------------------------
(* Free texts and countries. *)

\* The free-text steps: the state, its handler and the prompt the state
\* is entered with.
FreeTextSteps ==
    {[state |-> MEMBER_NAME, handler |-> "set_member_name", prompt |-> "prompt_name"],
     [state |-> PRAYER_NAME, handler |-> "set_prayer_name", prompt |-> "prompt_name"],
     [state |-> PRAYER_INPUT, handler |-> "save_prayer_request", prompt |-> "prompt_prayer"],
     [state |-> SCHOOL_NAME, handler |-> "set_school_name", prompt |-> "prompt_name"],
     [state |-> MASTER_NAME, handler |-> "set_master_name", prompt |-> "prompt_name"],
     [state |-> PARTNER_DETAILS_NAME, handler |-> "set_partner_details_name",
      prompt |-> "prompt_name"]}

\* In a free-text step every text that is no command reaches the handler
\* of the step.
FreeTextRouting ==
    \A s \in FreeTextSteps : \A upd \in PlainTextUpdates :
        DispatchTable[s.state][upd] = s.handler

\* Claim C22.  In every free-text step a text that is blank after
\* trimming is rejected: the prompt of the step is sent again, the state
\* is unchanged and nothing is stored, neither in the fields nor in a
\* worksheet.
C22_BlankRejected ==
    /\ FreeTextRouting
    /\ \A s \in FreeTextSteps :
          (/\ Ran(s.handler)
           /\ last.from = s.state
           /\ Strip(last.input.text) = <<>>)
            => /\ last.sent = <<Msg(<<s.prompt>>, get_lang(last.user), <<>>)>>
               /\ conv[last.user] = s.state
               /\ user_data[last.user] = last.ud
               /\ sheets = last.before

\* The country steps that commit: the handler and the worksheet.
CommittingCountrySteps ==
    {[handler |-> "set_member_country", sheet |-> "Members"],
     [handler |-> "set_school_country", sheet |-> "School of Discipleship"],
     [handler |-> "set_master_country", sheet |-> "Master Class"]}

\* Claim C23.  In each of the four country steps the value stored as the
\* country, and persisted in the committed record, is the input trimmed
\* and title-cased: in the member, school and master-class flows it is the
\* fourth value of the record the step appends; in the partner flow it is
\* stored under partner_country and is the fifth value of the record the
\* payment-proof step appends.
C23_CountryTitleCased ==
    /\ \A s \in CommittingCountrySteps :
          (Ran(s.handler) /\ Appended)
            => /\ last.calls[1].sheet = s.sheet
               /\ NewRow[4] = Title(Strip(last.input.text))
    /\ Ran("set_partner_details_country")
          => user_data[last.user]["partner_country"] = Title(Strip(last.input.text))
    /\ (Ran("set_partner_payment_proof") /\ Appended)
          => /\ NewRow[5] = last.ud["partner_country"]
             /\ NewRow[5] = Title(Strip(NewRow[5]))

--------------------------------------------------------------------------
(* The reset of a commit. *)

\* The observable session of user u.
Session(u) == [state |-> conv[u], fields |-> user_data[u]]

--------------------------------------------------------------------------
(* Replies and navigation in the partner flow. *)

\* Claim C27.  Every update (a tap, a text, a photo or a document)
\* received while the participant has a session, in whatever state, is
\* answered with at least one message; none is dropped silently.
C27_AlwaysAnswered ==
    (last.user \in Users /\ last.from # NoConv) => last.sent # <<>>

\* In the country step of the partner flow a back-to-categories tap
\* reaches handle_partner_main_selection.
CountryBackRouting ==
    DispatchTable[PARTNER_DETAILS_COUNTRY][CallbackUpdate(BACK_TO_PARTNER_CATEGORIES)]
        = "handle_partner_main_selection"

\* Claim C28.  A back-to-categories selection received in the country
\* step of the partner flow returns the session to the partner category
\* menu and renders the Give and Partner options again; the stored
\* category is unchanged and the session does not advance to the name
\* step.
C28_BackFromCountry ==
    /\ CountryBackRouting
    /\ Selected(PARTNER_DETAILS_COUNTRY, BACK_TO_PARTNER_CATEGORIES)
          => /\ conv[last.user] = PARTNER_MAIN_OPTIONS
             /\ last.sent = <<CategoryMenuMsg(get_lang(last.user))>>
             /\ user_data[last.user] = last.ud

\* Claim C29.  A Contact Admin selection received in the amount step,
\* after the international payment instructions were sent with their
\* Contact Admin button, is answered with the admin contact text, with the
\* id of the operator in it, followed by the main menu, and the session
\* is in the main menu.
C29_ContactAdminReachable ==
    (/\ last.from = PARTNER_AMOUNT
     /\ last.user \in Users
     /\ last.handler = DispatchTable[PARTNER_AMOUNT][CallbackUpdate(CONTACT_ADMIN)]
     /\ ~Contains(LowerStr(last.ud["partner_country"]), SouthAfrica))
      => /\ last.sent = <<Msg(<<"admin_contact_info", ADMIN_ID>>, get_lang(last.user), <<>>),
                          MenuMsg(get_lang(last.user))>>
         /\ conv[last.user] = MENU

--------------------------------------------------------------------------
(* The admin dashboard. *)

\* The worksheets in the order the admin dashboard reports them.
StatsOrder ==
    <<"Members", "Prayers", "Partners", "School of Discipleship", "Master Class">>

\* Claim C30.  When the operator selects the Admin Dashboard in the main
\* menu and the record store can be read, the count reported for each of
\* the five worksheets is the number of its data records, the records
\* appended to it; when the read fails an error message is sent; in both
\* cases the state stays the main menu.
C30_StatsCounts ==
    (MenuTap(6) /\ last.user = ADMIN_ID)
      => /\ conv[last.user] = MENU
         /\ Len(last.sent) = 1
         /\ IF last.calls[1].ok
            THEN last.sent[1] = StatsMsg([i \in 1..5 |-> Len(last.before[StatsOrder[i]])])
            ELSE last.sent[1].text[1] \in {"api_header_error", "api_error", "error_general"}

--------------------------------------------------------------------------
(* Participants side by side. *)

\* Claim C26.  Sessions are independent: a step that handles an update of
\* one participant leaves the conversation state, the user_data and the
\* language of every other participant as they were, whatever the order in
\* which the updates of the two participants are handled.
C26_SessionsIndependent ==
    [][\A v \in Users :
          v # last'.user
            => /\ conv'[v] = conv[v]
               /\ user_data'[v] = user_data[v]
               /\ user_languages'[v] = user_languages[v]]_vars

\* Both participants are in the middle of a flow, with different languages,
\* and the latest update stored a field of one of them.
C26_Witness ==
    /\ last.user = "u1"
    /\ last.handler = "set_member_name"
    /\ conv["u1"] = MEMBER_PHONE
    /\ conv["u2"] = PRAYER_INPUT
    /\ user_languages["u1"] = <<"en">>
    /\ user_languages["u2"] = <<"es">>
    /\ user_data["u2"] # EmptyDict
    /\ user_data["u1"] # user_data["u2"]

--------------------------------------------------------------------------
(* Updates that arrive while another is handled. *)

\* What handler callback `l.handler` makes of the state and the user_data
\* it found, `l.from` and `l.ud`, when nothing else runs in between.
Alone(l) ==
    CASE l.handler = "set_member_name" ->
           [next |-> MEMBER_PHONE, ud |-> Put(l.ud, "member_name", l.input.text)]
      [] l.handler = "set_member_phone" ->
           IF PhoneOk(l.input.text)
           THEN [next |-> MEMBER_COUNTRY, ud |-> Put(l.ud, "member_phone", l.input.text)]
           ELSE [next |-> MEMBER_PHONE, ud |-> l.ud]
      [] l.handler = "set_member_country" -> [next |-> MENU, ud |-> EmptyDict]
      [] OTHER -> [next |-> LANG_SELECT, ud |-> l.ud]

\* The row a commit of the member flow appends: the name and the phone
\* number it found and the country of its own update.
MemberRow(l) ==
    <<Str(l.user), Get(l.ud, "member_name", <<>>), Get(l.ud, "member_phone", <<>>),
      l.input.text>>

\* Claim C25.  The updates of a participant are handled one after the
\* other: at most one handler callback is running at any time, and when a
\* callback returns, the conversation state, the user_data and the
\* worksheets are what that callback alone makes of what it found when it
\* began.  So one pass through the member flow appends at most one record,
\* however many times its last input is delivered, and the record holds
\* the name and the phone number the commit found and its own country.
C25_PerParticipantSerialization ==
    /\ [](Len(tasks) <= 1 /\ Len(sheets["Members"]) <= 1)
    /\ [][Len(tasks') < Len(tasks)
            => /\ conv'[last'.user] = Alone(last').next
               /\ user_data'[last'.user] = Alone(last').ud
               /\ sheets' = ApplyCalls(last'.before, last'.calls)
               /\ last'.handler = "set_member_country"
                    => \E store \in StoreOutcomes, ts \in Timestamps :
                           last'.calls
                             = <<AppendCall("Members", MemberRow(last') \o <<ts>>, store)>>]_vars

\* The last input of the member flow was delivered twice: the commit of
\* the first delivery has appended its record and awaits a reply while the
\* second delivery waits in the queue.
C25_Witness ==
    /\ Len(tasks) = 1
    /\ tasks[1].handler = "set_member_country"
    /\ tasks[1].todo # <<>>
    /\ Len(sheets["Members"]) = 1
    /\ queue # <<>>
    /\ Head(queue) = [user |-> tasks[1].user, upd |-> tasks[1].upd]

--------------------------------------------------------------------------
(* The restart. *)

\* The /start command reaches start() in every state of the conversation
\* and before the conversation has begun.
StartCommandRouting ==
    \A state \in States \cup {NoConv} : DispatchTable[state][TextUpdate(tStart)] = "start"

\* The lookup finds a record dated today that has a scripture or a message.
HasDaily(daily) ==
    /\ daily.ok
    /\ \E i \in DOMAIN daily.today : daily.today[i].scripture \/ daily.today[i].message

\* The texts of a daily message.
DailyTexts == {<<"daily_scripture", "daily_message">>, <<"daily_scripture">>, <<"daily_message">>}

\* Claim C31.  Every /start is handled by start(), and every run of
\* start() ends with the language prompt and the state LANG_SELECT,
\* whatever the lookup of the daily message gives: nothing is sent before
\* the prompt when the lookup fails or finds nothing for today, and the
\* daily message is sent before the prompt when a record dated today has a
\* scripture or a message.
C31_RestartPrompts ==
    [][/\ StartCommandRouting
       /\ last'.handler = "start"
            => \A daily \in DailyLookups :
                   Start(last'.user, TextUpdate(tStart), daily)
                     => /\ conv'[last'.user] = LANG_SELECT
                        /\ Len(last'.sent) = (IF HasDaily(daily) THEN 2 ELSE 1)
                        /\ last'.sent[Len(last'.sent)]
                              = Msg(<<"lang_prompt">>, <<>>, LanguageKeyboard)
                        /\ HasDaily(daily) => last'.sent[1].text \in DailyTexts]_vars

\* A /start in the middle of a flow whose lookup of the daily message failed.
C31_Witness ==
    /\ last.handler = "start"
    /\ last.from = MEMBER_PHONE
    /\ ~last.calls[1].ok
    /\ conv[last.user] = LANG_SELECT
    /\ Len(last.sent) = 1

--------------------------------------------------------------------------
(* Rows and headers. *)

\* The column of worksheet `sheet` that its header row calls `name`.
Column(sheet, name) ==
    CHOOSE i \in DOMAIN worksheet_data[sheet] : worksheet_data[sheet][i] = name

\* Claim C32.  A row appended to a worksheet has as many values as the
\* header row of the worksheet has names, with the participant id in the
\* column "User ID" and the timestamp in the column "Timestamp"; a row of
\* Partners has the amount in the column "Amount" and the file id of the
\* payment proof in the column "Payment Proof File ID".
C32_RowMatchesHeader ==
    \A c \in Commits :
        (Ran(c.handler) /\ Appended)
          => /\ Len(NewRow) = Len(worksheet_data[c.sheet])
             /\ NewRow[Column(c.sheet, "User ID")] = Str(last.user)
             /\ NewRow[Column(c.sheet, "Timestamp")] \in Timestamps
             /\ c.sheet = "Partners"
                  => /\ NewRow[Column(c.sheet, "Amount")] = last.ud["partner_amount"]
                     /\ NewRow[Column(c.sheet, "Payment Proof File ID")]
                           = Supplied(last.input)

--------------------------------------------------------------------------
(* The language of a participant. *)

\* Claim C33.  The language of a participant changes only when
\* language_selected handles a tap of that participant in LANG_SELECT, and
\* it becomes the code tapped; every other step, the commits with their
\* reset, the restarts, the back navigation and the rejected inputs among
\* them, leaves it as it was.  So the menu a commit ends with, after a
\* success or a failure, is in the language selected before the flow.
C33_LanguageStable ==
    /\ [](\A c \in Commits :
              Ran(c.handler) /\ last.calls # <<>>
                => /\ user_languages[last.user] \in LANGUAGES
                   /\ last.sent[Len(last.sent)] = MenuMsg(user_languages[last.user]))
    /\ [][\A v \in Users :
              user_languages'[v] # user_languages[v]
                => /\ last'.user = v
                   /\ last'.handler = "language_selected"
                   /\ last'.from = LANG_SELECT
                   /\ user_languages'[v] = last'.input.data]_vars

\* A member signup of a participant who selected Spanish failed to be
\* appended, and the menu was sent in Spanish.
C33_Witness ==
    /\ Ran("set_member_country")
    /\ ~last.calls[1].ok
    /\ user_languages[last.user] = <<"es">>
    /\ last.sent[2] = MenuMsg(<<"es">>)
    /\ conv[last.user] = MENU

--------------------------------------------------------------------------
(* The way back to the main menu. *)

\* A tap on a language of the keyboard start() sends is handled by
\* language_selected in LANG_SELECT.
LanguageRouting ==
    \A l \in LANGUAGES : Dispatch(LANG_SELECT, CallbackUpdate(l)) = "language_selected"

\* Claim C34.  No state of a conversation is a trap.  In every reachable
\* state the /start command of a participant is handled by start(), which
\* returns LANG_SELECT whatever the lookup of the daily message gives, and
\* a tap on any of the languages is then handled by language_selected,
\* which sends the main menu in that language last and returns MENU; and
\* the steps of the two handlers leave the conversation in the states they
\* return.
C34_NoTrap ==
    /\ [](/\ LanguageRouting
          /\ \A u \in cast :
                /\ Runs(u, TextUpdate(tStart), "start")
                /\ \A daily \in DailyLookups : start(u, daily).next = LANG_SELECT
                /\ \A l \in LANGUAGES :
                      /\ language_selected(u, CallbackUpdate(l)).next = MENU
                      /\ language_selected(u, CallbackUpdate(l)).outs[2] = MenuMsg(l))
    /\ [][/\ last'.handler = "start" => conv'[last'.user] = LANG_SELECT
          /\ (last'.handler = "language_selected" /\ last'.input.data \in LANGUAGES)
               => /\ last'.from = LANG_SELECT
                  /\ conv'[last'.user] = MENU
                  /\ Len(last'.sent) = 2
                  /\ last'.sent[2] = MenuMsg(last'.input.data)]_vars

\* A participant who sent /start in the middle of the partner flow and
\* then tapped a language is in the main menu, with the menu sent.
C34_Witness ==
    /\ Ran("language_selected")
    /\ last.input.data \in LANGUAGES
    /\ "partner_name" \in DOMAIN last.ud
    /\ conv[last.user] = MENU
    /\ last.sent[2] = MenuMsg(last.input.data)

==========================================================================
